---------------------------- MODULE Spec2Model ----------------------------
(***************************************************************************)
(* Layered root-filesystem merge engine of docker/images:                  *)
(*   extract_rootfs.py            (path sanitising, whiteouts, members)    *)
(*   export_rootfs_from_layout.py (one pass per OCI layer, then a tarball) *)
(*   overlay_deb_packages.py      (one pass per Debian package)            *)
(*                                                                         *)
(* Strings are sequences of one-character strings, so that lstrip,         *)
(* startswith, split, normpath, basename and slicing are computed the way  *)
(* Python computes them.  The filesystem is a tree of directory entries    *)
(* keyed by canonical absolute path, with kernel-style path resolution     *)
(* (symbolic links are followed, "." and ".." are walked).                 *)
(***************************************************************************)
EXTENDS Naturals, Sequences, FiniteSets, TLC

\* ------------------------------------------------------------------------
\* Python string helpers
\* ------------------------------------------------------------------------

\* str.startswith(prefix)
StartsWith(s, prefix) ==
    /\ Len(s) >= Len(prefix)
    /\ SubSeq(s, 1, Len(prefix)) = prefix

RECURSIVE LStrip(_, _)
\* str.lstrip(chars): drops EVERY leading character that is a member of chars
LStrip(s, chars) ==
    IF s # <<>> /\ Head(s) \in chars THEN LStrip(Tail(s), chars) ELSE s

RECURSIVE SplitFrom(_, _, _)
SplitFrom(s, sep, cur) ==
    IF s = <<>> THEN <<cur>>
    ELSE IF Head(s) = sep THEN <<cur>> \o SplitFrom(Tail(s), sep, <<>>)
    ELSE SplitFrom(Tail(s), sep, Append(cur, Head(s)))

\* str.split("/"): always at least one (possibly empty) component
Split(s) == SplitFrom(s, "/", <<>>)

RECURSIVE Join(_)
\* "/".join(comps)
Join(comps) ==
    IF comps = <<>> THEN <<>>
    ELSE IF Len(comps) = 1 THEN comps[1]
    ELSE comps[1] \o <<"/">> \o Join(Tail(comps))

DOT == <<".">>
DOTDOT == <<".", ".">>

RECURSIVE NormComps(_, _, _)
\* the loop of posixpath.normpath over the split components
NormComps(comps, acc, initial_slashes) ==
    IF comps = <<>> THEN acc
    ELSE LET comp == Head(comps) IN
         IF comp = <<>> \/ comp = DOT
           THEN NormComps(Tail(comps), acc, initial_slashes)
         ELSE IF \/ comp # DOTDOT
                 \/ (initial_slashes = 0 /\ acc = <<>>)
                 \/ (acc # <<>> /\ acc[Len(acc)] = DOTDOT)
           THEN NormComps(Tail(comps), Append(acc, comp), initial_slashes)
         ELSE IF acc # <<>>
           THEN NormComps(Tail(comps), SubSeq(acc, 1, Len(acc) - 1), initial_slashes)
         ELSE NormComps(Tail(comps), acc, initial_slashes)

RECURSIVE Slashes(_)
Slashes(n) == IF n = 0 THEN <<>> ELSE <<"/">> \o Slashes(n - 1)

\* posixpath.normpath(path)
normpath(path) ==
    IF path = <<>> THEN DOT
    ELSE LET initial_slashes ==
                 IF ~StartsWith(path, <<"/">>) THEN 0
                 ELSE IF StartsWith(path, <<"/", "/">>) /\ ~StartsWith(path, <<"/", "/", "/">>)
                      THEN 2 ELSE 1
             joined == Slashes(initial_slashes)
                         \o Join(NormComps(Split(path), <<>>, initial_slashes))
         IN IF joined = <<>> THEN DOT ELSE joined

RECURSIVE LastSlash(_, _)
\* str.rfind("/") + 1
LastSlash(s, i) ==
    IF i = 0 THEN 0 ELSE IF s[i] = "/" THEN i ELSE LastSlash(s, i - 1)

RECURSIVE RStripSlash(_)
RStripSlash(s) ==
    IF s # <<>> /\ s[Len(s)] = "/" THEN RStripSlash(SubSeq(s, 1, Len(s) - 1)) ELSE s

\* posixpath.basename(p)
basename(p) == SubSeq(p, LastSlash(p, Len(p)) + 1, Len(p))

\* posixpath.dirname(p)
dirname(p) ==
    LET head == SubSeq(p, 1, LastSlash(p, Len(p)))
    IN IF head # <<>> /\ LStrip(head, {"/"}) # <<>> THEN RStripSlash(head) ELSE head

\* posixpath.join(a, b)
pathjoin(a, b) ==
    IF StartsWith(b, <<"/">>) THEN b
    ELSE IF a = <<>> \/ a[Len(a)] = "/" THEN a \o b
    ELSE a \o <<"/">> \o b

\* ------------------------------------------------------------------------
\* PathSanitizer
\* ------------------------------------------------------------------------

\* Results of _normalize_member_name: None, a raised ValueError, or a path.
SKIP == [tag |-> "skip"]
RAISE == [tag |-> "raise"]
Rel(p) == [tag |-> "path", path |-> p]

\* extract_rootfs._normalize_member_name
_normalize_member_name(name) ==
    LET stripped == LStrip(name, {".", "/"})
        normalized == normpath(stripped)
    IN IF stripped = <<>> THEN SKIP
       ELSE IF normalized = <<>> \/ normalized = DOT THEN SKIP
       ELSE IF StartsWith(normalized, <<".", ".", "/">>) THEN RAISE
       ELSE Rel(normalized)

\* ------------------------------------------------------------------------
\* The filesystem the os / shutil calls act on
\* ------------------------------------------------------------------------
\* disk = [tree, files, err]
\*   tree : canonical absolute path (sequence of names) -> directory entry
\*            [kind |-> "dir",  mode]    a directory
\*            [kind |-> "file", ino]     a link to regular file number ino
\*            [kind |-> "sym",  target]  a symbolic link
\*   files: ino -> [data, mode]          regular files (shared by hard links)
\*   err  : "" or the errno of the exception that is propagating; every
\*          mutating call is skipped while an exception propagates.
\* Permission bits are data: access checks are not modelled (the helpers run
\* as the owner of a tree they created).

MaxSymHops == 3

ROOT == <<>>
DirNode(m) == [kind |-> "dir", mode |-> m]
FileNode(i) == [kind |-> "file", ino |-> i]
SymNode(t) == [kind |-> "sym", target |-> t]

Fail(d, e) == [d EXCEPT !.err = e]

Parent(key) == IF key = ROOT THEN ROOT ELSE SubSeq(key, 1, Len(key) - 1)

IsPrefix(a, b) == Len(a) <= Len(b) /\ SubSeq(b, 1, Len(a)) = a
Under(key, top) == IsPrefix(top, key) /\ key # top

RECURSIVE Walk(_, _, _, _, _)
\* Kernel path walk from directory entry cur over the components comps.
\*   [st |-> "ok", key]     the object exists at key
\*   [st |-> "noent", key]  the last component is missing in an existing
\*                          directory; key is where it would be created
\*   [st |-> "err", errno]
Walk(tree, cur, comps, follow_last, fuel) ==
    IF comps = <<>> THEN [st |-> "ok", key |-> cur, errno |-> ""]
    ELSE IF tree[cur].kind # "dir" THEN [st |-> "err", key |-> cur, errno |-> "ENOTDIR"]
    ELSE LET c == Head(comps)
             rest == Tail(comps)
             child == Append(cur, c)
         IN IF c = <<>> \/ c = DOT THEN Walk(tree, cur, rest, follow_last, fuel)
            ELSE IF c = DOTDOT THEN Walk(tree, Parent(cur), rest, follow_last, fuel)
            ELSE IF child \notin DOMAIN tree
              THEN IF rest = <<>> THEN [st |-> "noent", key |-> child, errno |-> "ENOENT"]
                   ELSE [st |-> "err", key |-> child, errno |-> "ENOENT"]
            ELSE IF tree[child].kind = "sym" /\ (rest # <<>> \/ follow_last)
              THEN IF fuel = 0 THEN [st |-> "err", key |-> child, errno |-> "ELOOP"]
                   ELSE LET t == tree[child].target
                        IN Walk(tree, IF StartsWith(t, <<"/">>) THEN ROOT ELSE cur,
                                Split(t) \o rest, follow_last, fuel - 1)
            ELSE Walk(tree, child, rest, follow_last, fuel)

\* os.lstat / os.stat of an absolute path
Lstat(d, path) == Walk(d.tree, ROOT, Split(path), FALSE, MaxSymHops)
Stat(d, path) == Walk(d.tree, ROOT, Split(path), TRUE, MaxSymHops)

lexists(d, path) == Lstat(d, path).st = "ok"
exists(d, path) == Stat(d, path).st = "ok"
islink(d, path) == Lstat(d, path).st = "ok" /\ d.tree[Lstat(d, path).key].kind = "sym"
isfile(d, path) == Stat(d, path).st = "ok" /\ d.tree[Stat(d, path).key].kind = "file"
isdir(d, path) == Stat(d, path).st = "ok" /\ d.tree[Stat(d, path).key].kind = "dir"

\* what stat reports of a directory entry, with a regular file's bytes
View(d, key) ==
    IF d.tree[key].kind = "file"
    THEN [kind |-> "file", data |-> d.files[d.tree[key].ino].data,
          mode |-> d.files[d.tree[key].ino].mode]
    ELSE d.tree[key]

\* regular files that still have a link after the directory entries gone
LiveFiles(tree, files) ==
    LET live == {tree[k].ino : k \in {q \in DOMAIN tree : tree[q].kind = "file"}}
    IN [i \in live |-> files[i]]

Remove(d, keys) ==
    LET t == [k \in DOMAIN d.tree \ keys |-> d.tree[k]]
    IN [d EXCEPT !.tree = t, !.files = LiveFiles(t, d.files)]

Insert(d, key, node) ==
    [d EXCEPT !.tree = [k \in DOMAIN d.tree \cup {key} |->
                            IF k = key THEN node ELSE d.tree[k]]]

\* os.listdir(path): the full paths of the children (path is a directory)
Children(d, key) == {k \in DOMAIN d.tree : Len(k) = Len(key) + 1 /\ IsPrefix(key, k)}

\* os.unlink(path)
unlink(d, path) ==
    IF d.err # "" THEN d
    ELSE LET r == Lstat(d, path)
         IN IF r.st # "ok" THEN Fail(d, r.errno)
            ELSE IF d.tree[r.key].kind = "dir" THEN Fail(d, "EISDIR")
            ELSE Remove(d, {r.key})

\* os.rmdir(path) as shutil.rmtree calls it last, on a directory it emptied
rmdir(d, path) ==
    IF d.err # "" THEN d
    ELSE LET r == Lstat(d, path)
             last == basename(path)
         IN IF r.st # "ok" THEN Fail(d, r.errno)
            ELSE IF d.tree[r.key].kind # "dir" THEN Fail(d, "ENOTDIR")
            ELSE IF last = DOT THEN Fail(d, "EINVAL")
            ELSE IF last = DOTDOT \/ Children(d, r.key) # {} THEN Fail(d, "ENOTEMPTY")
            ELSE IF r.key = ROOT THEN Fail(d, "EBUSY")
            ELSE Remove(d, {r.key})

\* Faulty variant of rmtree: empties the directory but leaves it in place.
rmtree_contents(d, path) ==
    IF d.err # "" THEN d
    ELSE LET r == Lstat(d, path)
         IN IF r.st # "ok" THEN Fail(d, r.errno)
            ELSE IF d.tree[r.key].kind # "dir" THEN Fail(d, "ENOTDIR")
            ELSE Remove(d, {k \in DOMAIN d.tree : Under(k, r.key)})

\* shutil.rmtree(path): symbolic links inside are unlinked, never followed
rmtree(d, path) ==
    IF d.err # "" THEN d
    ELSE LET r == Lstat(d, path)
         IN IF r.st # "ok" THEN Fail(d, r.errno)
            ELSE IF d.tree[r.key].kind = "sym" THEN Fail(d, "ESYMLINK")
            ELSE IF d.tree[r.key].kind # "dir" THEN Fail(d, "ENOTDIR")
            ELSE rmdir(Remove(d, {k \in DOMAIN d.tree : Under(k, r.key)}), path)

\* the mode os.makedirs and open() give what they create (umask 022)
DefaultDirMode == 493
DefaultFileMode == 420

\* os.mkdir(path)
mkdir(d, path) ==
    IF d.err # "" THEN d
    ELSE LET r == Lstat(d, RStripSlash(path))
         IN IF r.st = "ok" THEN Fail(d, "EEXIST")
            ELSE IF r.st = "err" THEN Fail(d, r.errno)
            ELSE Insert(d, r.key, DirNode(DefaultDirMode))

RECURSIVE makedirs(_, _)
\* os.makedirs(name, exist_ok=True)
makedirs(d, name) ==
    IF d.err # "" THEN d
    ELSE LET head0 == dirname(name)
             tail0 == basename(name)
             head == IF tail0 = <<>> THEN dirname(head0) ELSE head0
             tail == IF tail0 = <<>> THEN basename(head0) ELSE tail0
             up == IF head # <<>> /\ tail # <<>> /\ ~exists(d, head)
                   THEN LET m == makedirs(d, head)
                        IN IF m.err = "EEXIST" THEN [m EXCEPT !.err = ""] ELSE m
                   ELSE d
         IN IF up.err # "" THEN up
            ELSE IF head # <<>> /\ tail # <<>> /\ ~exists(d, head) /\ tail = DOT THEN up
            ELSE LET made == mkdir(up, name)
                 IN IF made.err # "" /\ isdir(up, name) THEN up ELSE made

\* os.symlink(target, path)
symlink(d, target, path) ==
    IF d.err # "" THEN d
    ELSE LET r == Lstat(d, path)
         IN IF r.st = "ok" THEN Fail(d, "EEXIST")
            ELSE IF r.st = "err" THEN Fail(d, r.errno)
            ELSE Insert(d, r.key, SymNode(target))

FreeIno(d) == CHOOSE i \in 1..(Cardinality(DOMAIN d.files) + 1) : i \notin DOMAIN d.files

\* Faulty variant of writefile: a file that exists already keeps its bytes
\* (open with "xb"-like semantics that swallows the collision).
writefile_keep(d, path, data) ==
    IF d.err # "" THEN d
    ELSE LET r == Stat(d, path)
         IN IF r.st = "err" THEN Fail(d, r.errno)
            ELSE IF r.st = "noent"
              THEN LET i == FreeIno(d)
                       f == [k \in DOMAIN d.files \cup {i} |->
                               IF k = i THEN [data |-> data, mode |-> DefaultFileMode]
                               ELSE d.files[k]]
                   IN Insert([d EXCEPT !.files = f], r.key, FileNode(i))
            ELSE IF d.tree[r.key].kind = "dir" THEN Fail(d, "EISDIR")
            ELSE d

\* open(path, "wb") followed by shutil.copyfileobj(src, dst): the path is
\* followed through symbolic links, an existing file is truncated in place
\* (every hard link to it sees the new bytes, its mode is kept), a missing
\* one is created.
writefile(d, path, data) ==
    IF d.err # "" THEN d
    ELSE LET r == Stat(d, path)
         IN IF r.st = "err" THEN Fail(d, r.errno)
            ELSE IF r.st = "noent"
              THEN LET i == FreeIno(d)
                       f == [k \in DOMAIN d.files \cup {i} |->
                               IF k = i THEN [data |-> data, mode |-> DefaultFileMode]
                               ELSE d.files[k]]
                   IN Insert([d EXCEPT !.files = f], r.key, FileNode(i))
            ELSE IF d.tree[r.key].kind = "dir" THEN Fail(d, "EISDIR")
            ELSE [d EXCEPT !.files[d.tree[r.key].ino].data = data]

\* os.chmod(path, mode): follows symbolic links
chmod(d, path, mode) ==
    IF d.err # "" THEN d
    ELSE LET r == Stat(d, path)
         IN IF r.st # "ok" THEN Fail(d, r.errno)
            ELSE IF d.tree[r.key].kind = "dir" THEN [d EXCEPT !.tree[r.key].mode = mode]
            ELSE [d EXCEPT !.files[d.tree[r.key].ino].mode = mode]

\* os.link(src, dst): link(2) does not follow a symbolic link at src
link(d, src, dst) ==
    IF d.err # "" THEN d
    ELSE LET s == Lstat(d, src)
             t == Lstat(d, dst)
         IN IF s.st # "ok" THEN Fail(d, s.errno)
            ELSE IF d.tree[s.key].kind = "dir" THEN Fail(d, "EPERM")
            ELSE IF t.st = "ok" THEN Fail(d, "EEXIST")
            ELSE IF t.st = "err" THEN Fail(d, t.errno)
            ELSE Insert(d, t.key, d.tree[s.key])

\* ------------------------------------------------------------------------
\* WhiteoutResolver and Materializer (extract_rootfs.py)
\* ------------------------------------------------------------------------

\* os.path.abspath of the destination directory
DEST == <<"/", "r">>

WH == <<".", "w", "h", ".">>
OPQ == WH \o WH \o <<".", "o", "p", "q">>

\* Faulty variant of _remove_path: directories are left alone.
_remove_path_files_only(d, path) ==
    IF d.err # "" \/ ~lexists(d, path) THEN d
    ELSE IF islink(d, path) \/ isfile(d, path) THEN unlink(d, path)
    ELSE d

\* extract_rootfs._remove_path
_remove_path(d, path) ==
    IF d.err # "" \/ ~lexists(d, path) THEN d
    ELSE IF islink(d, path) \/ isfile(d, path) THEN unlink(d, path)
    ELSE IF isdir(d, path) THEN rmtree(d, path)
    ELSE d

RECURSIVE RemoveEach(_, _, _)
\* for entry in os.listdir(target_dir): _remove_path(join(target_dir, entry))
RemoveEach(d, target_dir, names) ==
    IF names = {} THEN d
    ELSE LET n == CHOOSE e \in names : TRUE
         IN RemoveEach(_remove_path(d, pathjoin(target_dir, n)), target_dir, names \ {n})

\* os.listdir(path): the names in the directory path resolves to
listdir(d, path) == {k[Len(k)] : k \in Children(d, Stat(d, path).key)}

\* Faulty variant of _apply_whiteout: no existence test before removing.
_apply_whiteout_unguarded(d, dest, relpath) ==
    LET base == basename(relpath)
        parent == dirname(relpath)
    IN IF base = OPQ
         THEN LET target_dir == pathjoin(dest, parent)
              IN [disk |-> rmtree(d, target_dir), consumed |-> TRUE]
       ELSE IF StartsWith(base, WH)
         THEN LET target_rel == pathjoin(parent, SubSeq(base, 5, Len(base)))
                  target_path == pathjoin(dest, target_rel)
              IN [disk |-> IF isdir(d, target_path) THEN rmtree(d, target_path)
                           ELSE unlink(d, target_path),
                  consumed |-> TRUE]
       ELSE [disk |-> d, consumed |-> FALSE]

\* extract_rootfs._apply_whiteout; consumed is the returned bool
_apply_whiteout(d, dest, relpath) ==
    LET base == basename(relpath)
        parent == dirname(relpath)
    IN IF base = OPQ
         THEN LET target_dir == pathjoin(dest, parent)
              IN [disk |-> IF isdir(d, target_dir)
                           THEN RemoveEach(d, target_dir, listdir(d, target_dir))
                           ELSE d,
                  consumed |-> TRUE]
       ELSE IF StartsWith(base, WH)
         THEN LET target_rel == pathjoin(parent, SubSeq(base, 5, Len(base)))
                  target_path == pathjoin(dest, target_rel)
              IN [disk |-> IF exists(d, target_path) \/ islink(d, target_path)
                           THEN _remove_path(d, target_path)
                           ELSE d,
                  consumed |-> TRUE]
       ELSE [disk |-> d, consumed |-> FALSE]

\* member.mode & 0o777
ModeBits(mode) == mode % 512

\* The state one layer pass works on.
Pass(d, links, perms) == [disk |-> d, pending_links |-> links, dir_perms |-> perms]

\* extract_rootfs._extract_member
_extract_member(S, member, dest, relpath) ==
    LET target_path == pathjoin(dest, relpath)
        parent_dir == dirname(target_path)
        d0 == IF parent_dir # <<>> THEN makedirs(S.disk, parent_dir) ELSE S.disk
    IN IF d0.err # "" THEN [S EXCEPT !.disk = d0]
       ELSE IF member.kind = "dir"
         THEN LET d1 == makedirs(d0, target_path)
              IN IF d1.err # "" THEN [S EXCEPT !.disk = d1]
                 ELSE Pass(d1, S.pending_links,
                           Append(S.dir_perms, <<target_path, ModeBits(member.mode)>>))
       ELSE IF member.kind = "sym"
         THEN LET d1 == IF lexists(d0, target_path) THEN unlink(d0, target_path) ELSE d0
              IN [S EXCEPT !.disk = symlink(d1, member.linkname, target_path)]
       ELSE IF member.kind = "file"
         THEN [S EXCEPT !.disk = chmod(writefile(d0, target_path, member.data),
                                       target_path, ModeBits(member.mode))]
       ELSE [S EXCEPT !.disk = d0]

\* ------------------------------------------------------------------------
\* LayerSequencer (export_rootfs_from_layout.py)
\* ------------------------------------------------------------------------

\* Faulty variant of KINDS: a FIFO is handled like the other members.
KINDS_fifo == {"file", "dir", "sym", "lnk", "fifo"}

\* member.isfile() or member.isdir() or member.issym() or member.islnk()
KINDS == {"file", "dir", "sym", "lnk"}

\* Faulty variant of ExtractOne: a hard-link member is linked as soon as it is
\* read, when its source is there, instead of in the pass after the loop.
ExtractOne_eager(S, member) ==
    IF member.kind \notin KINDS THEN S
    ELSE LET rel == _normalize_member_name(member.name)
         IN IF rel.tag = "raise" THEN [S EXCEPT !.disk = Fail(S.disk, "ValueError")]
            ELSE IF rel.tag = "skip" THEN S
            ELSE LET w == _apply_whiteout(S.disk, DEST, rel.path)
                 IN IF w.disk.err # "" \/ w.consumed THEN [S EXCEPT !.disk = w.disk]
                    ELSE IF member.kind = "lnk"
                      THEN LET link_target == _normalize_member_name(member.linkname)
                           IN IF link_target.tag = "raise"
                                THEN [S EXCEPT !.disk = Fail(S.disk, "ValueError")]
                              ELSE IF link_target.tag = "skip" THEN S
                              ELSE IF exists(S.disk, pathjoin(DEST, link_target.path))
                                      /\ ~lexists(S.disk, pathjoin(DEST, rel.path))
                                THEN [S EXCEPT !.disk =
                                          link(S.disk, pathjoin(DEST, link_target.path),
                                               pathjoin(DEST, rel.path))]
                              ELSE [S EXCEPT !.pending_links =
                                        Append(@, <<link_target.path, rel.path>>)]
                    ELSE _extract_member(S, member, DEST, rel.path)

\* one iteration of "for member in archive" in _extract_layer
ExtractOne(S, member) ==
    IF member.kind \notin KINDS THEN S
    ELSE LET rel == _normalize_member_name(member.name)
         IN IF rel.tag = "raise" THEN [S EXCEPT !.disk = Fail(S.disk, "ValueError")]
            ELSE IF rel.tag = "skip" THEN S
            ELSE LET w == _apply_whiteout(S.disk, DEST, rel.path)
                 IN IF w.disk.err # "" \/ w.consumed THEN [S EXCEPT !.disk = w.disk]
                    ELSE IF member.kind = "lnk"
                      THEN LET link_target == _normalize_member_name(member.linkname)
                           IN IF link_target.tag = "raise"
                                THEN [S EXCEPT !.disk = Fail(S.disk, "ValueError")]
                              ELSE IF link_target.tag = "skip" THEN S
                              ELSE [S EXCEPT !.pending_links =
                                        Append(@, <<link_target.path, rel.path>>)]
                    ELSE _extract_member(S, member, DEST, rel.path)

\* Faulty variant of LinkOne: a link whose source is missing is an error.
LinkOne_strict(d, source_rel, dest_rel) ==
    LET source_path == pathjoin(DEST, source_rel)
        target_path == pathjoin(DEST, dest_rel)
        parent_dir == dirname(target_path)
    IN IF d.err # "" THEN d
       ELSE IF ~exists(d, source_path) THEN Fail(d, "ENOENT")
       ELSE LET d1 == IF parent_dir # <<>> THEN makedirs(d, parent_dir) ELSE d
                d2 == IF d1.err = "" /\ lexists(d1, target_path)
                      THEN unlink(d1, target_path) ELSE d1
            IN link(d2, source_path, target_path)

\* Faulty variant of LinkOne: the link is made as a copy of the source's
\* bytes, a second file rather than a second name of the same file.
LinkOne_copy(d, source_rel, dest_rel) ==
    LET source_path == pathjoin(DEST, source_rel)
        target_path == pathjoin(DEST, dest_rel)
        parent_dir == dirname(target_path)
    IN IF d.err # "" \/ ~exists(d, source_path) THEN d
       ELSE LET d1 == IF parent_dir # <<>> THEN makedirs(d, parent_dir) ELSE d
                d2 == IF d1.err = "" /\ lexists(d1, target_path)
                      THEN unlink(d1, target_path) ELSE d1
                src == Stat(d2, source_path)
            IN IF d2.err # "" \/ d2.tree[src.key].kind # "file" THEN d2
               ELSE writefile(d2, target_path, d2.files[d2.tree[src.key].ino].data)

\* one iteration of "for source_rel, dest_rel in pending_links"
LinkOne(d, source_rel, dest_rel) ==
    LET source_path == pathjoin(DEST, source_rel)
        target_path == pathjoin(DEST, dest_rel)
        parent_dir == dirname(target_path)
    IN IF d.err # "" \/ ~exists(d, source_path) THEN d
       ELSE LET d1 == IF parent_dir # <<>> THEN makedirs(d, parent_dir) ELSE d
                d2 == IF d1.err = "" /\ lexists(d1, target_path)
                      THEN unlink(d1, target_path) ELSE d1
            IN link(d2, source_path, target_path)

RECURSIVE ResolveLinks(_, _)
\* the hard-link pass of _extract_layer
ResolveLinks(d, links) ==
    IF links = <<>> THEN d
    ELSE ResolveLinks(LinkOne(d, Head(links)[1], Head(links)[2]), Tail(links))

\* Faulty variant of FinalizePerms: only the first recorded mode is applied.
FinalizePerms_first(d, perms) ==
    IF perms = <<>> \/ d.err # "" THEN d
    ELSE IF exists(d, Head(perms)[1]) THEN chmod(d, Head(perms)[1], Head(perms)[2])
    ELSE d

\* Faulty variant of FinalizePerms: the recorded modes are never applied.
FinalizePerms_skipped(d, perms) == d

RECURSIVE FinalizePerms(_, _)
\* the directory-mode pass of _extract_layer
FinalizePerms(d, perms) ==
    IF perms = <<>> \/ d.err # "" THEN d
    ELSE FinalizePerms(IF exists(d, Head(perms)[1])
                       THEN chmod(d, Head(perms)[1], Head(perms)[2]) ELSE d,
                       Tail(perms))

\* the whole of _extract_layer on the members of one archive
RECURSIVE ExtractEach(_, _)
ExtractEach(S, members) ==
    IF members = <<>> \/ S.disk.err # "" THEN S
    ELSE ExtractEach(ExtractOne(S, Head(members)), Tail(members))

_extract_layer(d, members) ==
    LET S == ExtractEach(Pass(d, <<>>, <<>>), members)
    IN FinalizePerms(ResolveLinks(S.disk, S.pending_links), S.dir_perms)

\* ------------------------------------------------------------------------
\* Debian overlay (overlay_deb_packages.py)
\* ------------------------------------------------------------------------

\* overlay_deb_packages._normalize_member_name
overlay_normalize_member_name(name) ==
    LET stripped == LStrip(name, {".", "/"})
    IN IF stripped = <<>> THEN SKIP
       ELSE LET normalized == normpath(stripped)
            IN IF normalized \in {<<>>, DOT} THEN SKIP
               ELSE IF StartsWith(normalized, DOTDOT \o <<"/">>) THEN RAISE
               ELSE Rel(normalized)

\* overlay_deb_packages._ensure_parent
_ensure_parent(d, path) ==
    IF dirname(path) # <<>> THEN makedirs(d, dirname(path)) ELSE d

\* overlay_deb_packages._extract_member
overlay_extract_member(S, member, dest, relpath) ==
    LET target == pathjoin(dest, relpath)
    IN IF member.kind = "dir"
         THEN LET d1 == makedirs(S.disk, target)
              IN IF d1.err # "" THEN [S EXCEPT !.disk = d1]
                 ELSE Pass(d1, S.pending_links,
                           Append(S.dir_perms, <<target, ModeBits(member.mode)>>))
       ELSE IF member.kind = "sym"
         THEN LET d0 == _ensure_parent(S.disk, target)
                  d1 == IF d0.err = "" /\ lexists(d0, target) THEN unlink(d0, target) ELSE d0
              IN [S EXCEPT !.disk = symlink(d1, member.linkname, target)]
       ELSE IF member.kind = "file"
         THEN LET d0 == _ensure_parent(S.disk, target)
              IN [S EXCEPT !.disk = chmod(writefile(d0, target, member.data),
                                          target, ModeBits(member.mode))]
       ELSE S

\* one iteration of "for member in archive" in _extract_tar_stream
StreamOne(S, member, dest) ==
    IF member.kind \notin KINDS THEN S
    ELSE LET rel == overlay_normalize_member_name(member.name)
         IN IF rel.tag = "raise" THEN [S EXCEPT !.disk = Fail(S.disk, "ValueError")]
            ELSE IF rel.tag = "skip" THEN S
            ELSE IF member.kind = "lnk"
              THEN LET link_target == overlay_normalize_member_name(member.linkname)
                   IN IF link_target.tag = "raise"
                        THEN [S EXCEPT !.disk = Fail(S.disk, "ValueError")]
                      ELSE IF link_target.tag = "skip" THEN S
                      ELSE [S EXCEPT !.pending_links =
                                Append(@, <<link_target.path, rel.path>>)]
            ELSE overlay_extract_member(S, member, dest, rel.path)

RECURSIVE _apply_hardlinks(_, _, _)
\* overlay_deb_packages._apply_hardlinks
_apply_hardlinks(d, dest, links) ==
    IF links = <<>> \/ d.err # "" THEN d
    ELSE LET source_path == pathjoin(dest, Head(links)[1])
             target_path == pathjoin(dest, Head(links)[2])
             d1 == IF ~exists(d, source_path) THEN d
                   ELSE LET e == _ensure_parent(d, target_path)
                            u == IF e.err = "" /\ lexists(e, target_path)
                                 THEN unlink(e, target_path) ELSE e
                        IN link(u, source_path, target_path)
         IN _apply_hardlinks(d1, dest, Tail(links))

RECURSIVE _apply_dir_perms(_, _)
\* overlay_deb_packages._apply_dir_perms
_apply_dir_perms(d, perms) ==
    IF perms = <<>> \/ d.err # "" THEN d
    ELSE _apply_dir_perms(IF exists(d, Head(perms)[1])
                          THEN chmod(d, Head(perms)[1], Head(perms)[2]) ELSE d,
                          Tail(perms))

RECURSIVE StreamEach(_, _, _)
\* the loop "for member in archive" of _extract_tar_stream
StreamEach(S, members, dest) ==
    IF members = <<>> \/ S.disk.err # "" THEN S
    ELSE StreamEach(StreamOne(S, Head(members), dest), Tail(members), dest)

\* overlay_deb_packages._extract_tar_stream on the members of one payload
_extract_tar_stream(d, dest, members) ==
    LET S == StreamEach(Pass(d, <<>>, <<>>), members, dest)
    IN _apply_dir_perms(_apply_hardlinks(S.disk, dest, S.pending_links), S.dir_perms)

\* str.endswith
EndsWith(str, suffix) ==
    /\ Len(suffix) <= Len(str)
    /\ SubSeq(str, Len(str) - Len(suffix) + 1, Len(str)) = suffix

\* ar member names and the prefix _apply_deb_package looks for
DATA_TAR == <<"d", "a", "t", "a", ".", "t", "a", "r">>
DEBIAN_BINARY == <<"d", "e", "b", "i", "a", "n", "-", "b", "i", "n", "a", "r", "y">>
CONTROL_TAR_GZ == <<"c", "o", "n", "t", "r", "o", "l", ".", "t", "a", "r", ".", "g", "z">>

\* one member of an ar archive: its 60-byte header (hdr: "ok", "short" for
\* a truncated header, "badsize" for a size field that is no number), its
\* name field, and its payload: the compression of the bytes (codec) and the
\* tar members they decode to (family, as for Archive)
ArMember(name, codec, family) ==
    [hdr |-> "ok", name |-> name, codec |-> codec, family |-> family]
ArBroken(hdr) == [hdr |-> hdr, name |-> <<>>, codec |-> "plain", family |-> "alt"]

\* a package file: file is os.path.isfile(pkg_path), magic is whether the
\* first 8 bytes are "!<arch>\n"
Deb(members) == [file |-> TRUE, magic |-> TRUE, members |-> members]

\* _open_data_stream: the decompressor chosen from the file name
_open_data_stream(filename) ==
    IF EndsWith(filename, <<".", "x", "z">>) THEN "xz"
    ELSE IF EndsWith(filename, <<".", "g", "z">>) THEN "gz"
    ELSE IF EndsWith(filename, <<".", "b", "z", "2">>) THEN "bz2"
    ELSE "raw"

\* tarfile.open(fileobj=stream, mode="r:*") succeeds: a raw stream is
\* probed for gzip, bzip2 and xz by tarfile itself, a decompressor only
\* reads its own format
Readable(stream, codec) ==
    IF stream = "raw" THEN codec \in {"plain", "gz", "bz2", "xz"}
    ELSE codec = stream

RECURSIVE ScanAr_last(_, _)
\* Faulty variant of ScanAr: the scan goes on after a match, so the last
\* data.tar member is the one taken.
ScanAr_last(members, i) ==
    IF i > Len(members) THEN [tag |-> "raise", at |-> 0]
    ELSE IF members[i].hdr # "ok" THEN [tag |-> "raise", at |-> 0]
    ELSE LET later == ScanAr_last(members, i + 1)
         IN IF later.tag = "found" THEN later
            ELSE IF StartsWith(RStripSlash(members[i].name), DATA_TAR)
              THEN [tag |-> "found", at |-> i]
            ELSE later

RECURSIVE ScanAr(_, _)
\* the while loop of _apply_deb_package over the ar members from index i:
\* the first member whose name (trailing "/" stripped) starts with data.tar
ScanAr(members, i) ==
    IF i > Len(members) THEN [tag |-> "raise", at |-> 0]
    ELSE IF members[i].hdr # "ok" THEN [tag |-> "raise", at |-> 0]
    ELSE IF StartsWith(RStripSlash(members[i].name), DATA_TAR) THEN [tag |-> "found", at |-> i]
    ELSE ScanAr(members, i + 1)

\* characters in the order of their code points (those that names here use)
CharOrder == <<".", "/", "0", "1", "2", "3", "4", "5", "6", "7", "8", "9", "_", "a", "b", "c", "d", "e", "f", "g", "h", "i", "j", "k", "l", "m", "n", "o", "p", "q", "r", "s", "t", "u", "v", "w", "x", "y", "z">>
Ord(c) == CHOOSE i \in 1..Len(CharOrder) : CharOrder[i] = c

RECURSIVE StrLess(_, _)
\* a < b for Python strings
StrLess(a, b) ==
    IF b = <<>> THEN FALSE
    ELSE IF a = <<>> THEN TRUE
    ELSE IF Head(a) = Head(b) THEN StrLess(Tail(a), Tail(b))
    ELSE Ord(Head(a)) < Ord(Head(b))

PG_INCLUDE == <<"u", "s", "r", "/", "i", "n", "c", "l", "u", "d", "e", "/", "p", "o", "s", "t", "g", "r", "e", "s", "q", "l">>
PG_CONFIG_H == <<"p", "g", "_", "c", "o", "n", "f", "i", "g", ".", "h">>
SERVER == <<"s", "e", "r", "v", "e", "r">>

\* shutil.copy2(src, dst): the bytes and the mode of src, through links
copy2(d, src, dst) ==
    LET f == View(d, Stat(d, src).key)
    IN chmod(writefile(d, dst, f.data), dst, f.mode)

\* overlay_deb_packages._ensure_pg_config_header
\* Faulty variant of _ensure_pg_config_header: the candidate that sorts
\* first is copied.
_ensure_pg_config_header_first(d, rootfs) ==
    LET include_root == pathjoin(rootfs, PG_INCLUDE)
        target == pathjoin(include_root, PG_CONFIG_H)
        candidate(e) == pathjoin(pathjoin(pathjoin(include_root, e), SERVER), PG_CONFIG_H)
    IN IF exists(d, target) \/ ~isdir(d, include_root) THEN d
       ELSE LET candidates == {e \in listdir(d, include_root) : isfile(d, candidate(e))}
            IN IF candidates = {} THEN d
               ELSE LET first == CHOOSE e \in candidates :
                                     \A o \in candidates : o = e \/ StrLess(e, o)
                    IN copy2(d, candidate(first), target)

_ensure_pg_config_header(d, rootfs) ==
    LET include_root == pathjoin(rootfs, PG_INCLUDE)
        target == pathjoin(include_root, PG_CONFIG_H)
        candidate(e) == pathjoin(pathjoin(pathjoin(include_root, e), SERVER), PG_CONFIG_H)
    IN IF exists(d, target) \/ ~isdir(d, include_root) THEN d
       ELSE LET candidates == {e \in listdir(d, include_root) : isfile(d, candidate(e))}
            IN IF candidates = {} THEN d
               ELSE LET last == CHOOSE e \in candidates :
                                    \A o \in candidates : o = e \/ StrLess(o, e)
                    IN copy2(d, candidate(last), target)

\* ------------------------------------------------------------------------
\* Tar members and the merge as a state machine
\* ------------------------------------------------------------------------

\* tarfile.TarInfo: name, type, linkname, mode; data is the file's bytes
File(name, data, mode) ==
    [name |-> name, kind |-> "file", linkname |-> <<>>, mode |-> mode, data |-> data]
Dir(name, mode) ==
    [name |-> name, kind |-> "dir", linkname |-> <<>>, mode |-> mode, data |-> ""]
Sym(name, target) ==
    [name |-> name, kind |-> "sym", linkname |-> target, mode |-> 511, data |-> ""]
Lnk(name, target) ==
    [name |-> name, kind |-> "lnk", linkname |-> target, mode |-> 420, data |-> ""]
Other(name) ==
    [name |-> name, kind |-> "fifo", linkname |-> <<>>, mode |-> 420, data |-> ""]

\* names used by the inputs
ETC == <<"e", "t", "c">>
PW == <<"p", "w">>
Slash(a, b) == a \o <<"/">> \o b

\* The machine before main() runs: "/" holds the fresh work directory /r
\* (tempfile.mkdtemp, mode 0700) and, outside it, /etc/pw.
InitDisk ==
    [tree |-> (ROOT :> DirNode(493))
              @@ (<< <<"r">> >> :> DirNode(448))
              @@ (<< ETC >> :> DirNode(493))
              @@ (<< ETC, PW >> :> FileNode(1)),
     files |-> (1 :> [data |-> "secret", mode |-> 420]),
     err |-> ""]

\* ------------------------------------------------------------------------
\* Inputs: the members the layer archives are drawn from
\* ------------------------------------------------------------------------

\* hostile and ordinary members: traversal names, a symbolic link that
\* leaves the root and members whose paths pass through it, root-level
\* whiteout markers
HostileMembers ==
    { File(<<"f">>, "A", 420),
      Dir(<<"d">>, 488),
      File(<<".", ".", "/", ".", ".", "/", "e", "t", "c", "/", "p", "w">>, "X", 420),
      File(<<"d", "/", ".", ".", "/", ".", ".", "/", "x">>, "X", 420),
      Lnk(<<"h">>, <<".", ".", "/", ".", ".", "/", "e", "t", "c", "/", "p", "w">>),
      Sym(<<"l">>, <<"/", "e", "t", "c">>),
      File(<<"l", "/", "p", "w">>, "X", 384),
      File(<<"l", "/", ".", "w", "h", ".", ".", "w", "h", ".", ".", "o", "p", "q">>, "", 420),
      Dir(<<"l", "/", "n">>, 448),
      File(<<".", "/", ".", "w", "h", ".", "f">>, "", 420),
      File(<<"d", "/", ".", "w", "h", ".", "x">>, "", 420),
      Other(<<".", ".", "/", ".", ".", "/", "e", "t", "c", "/", "p", "w">>) }

\* ordinary layers: files rewritten by later layers, an opaque directory,
\* forward hard links, directory entries with modes and children, and a
\* directory replaced by a link that leaves the root
LayerMembers ==
    { File(<<"f">>, "A", 420),
      File(<<"f">>, "B", 384),
      File(<<"d", "/", "x">>, "A", 420),
      File(<<"d", "/", "y">>, "B", 420),
      File(<<"d", "/", ".", "w", "h", ".", ".", "w", "h", ".", ".", "o", "p", "q">>, "", 420),
      Lnk(<<"l">>, <<"f">>),
      Lnk(<<"d", "/", "x">>, <<"f">>),
      File(<<"l">>, "C", 420),
      Dir(<<"d">>, 488),
      Dir(<<"d">>, 1472),
      Sym(<<"d">>, <<"/", "e", "t", "c">>),
      File(<<"d", "/", ".", ".", "/", ".", "w", "h", ".", "d">>, "", 420) }

\* whiteout directives against files, symbolic links, nested directories
\* and absent targets
WhiteoutMembers ==
    { File(<<"d", "/", "a">>, "A", 420),
      File(<<"d", "/", "s", "/", "b">>, "B", 384),
      Sym(<<"d", "/", "k">>, <<"/", "e", "t", "c">>),
      File(<<"f">>, "A", 420),
      Lnk(<<"d", "/", "h">>, <<"f">>),
      File(<<"d", "/", ".", "w", "h", ".", ".", "w", "h", ".", ".", "o", "p", "q">>, "", 420),
      File(<<"d", "/", "s", "/", ".", "w", "h", ".", ".", "w", "h", ".", ".", "o", "p", "q">>, "", 420),
      File(<<"q", "/", ".", "w", "h", ".", ".", "w", "h", ".", ".", "o", "p", "q">>, "", 420),
      File(<<"d", "/", ".", ".", "/", ".", "w", "h", ".", ".", "w", "h", ".", ".", "o", "p", "q">>, "", 420),
      File(<<"d", "/", ".", "w", "h", ".", "a">>, "", 420),
      File(<<"d", "/", ".", "w", "h", ".", "s">>, "", 420),
      File(<<"d", "/", ".", "w", "h", ".", "k">>, "", 420),
      File(<<"d", "/", ".", "w", "h", ".", "z">>, "", 420),
      File(<<"d", "/", ".", ".", "/", ".", "w", "h", ".", "d">>, "", 420) }

\* the payload of a Debian package: files, a directory with a mode, a hard
\* link, a name that leaves the root, and members named like whiteout markers
DebMembers ==
    { File(<<".", "/", "f">>, "A", 420),
      Dir(<<".", "/", "d">>, 488),
      File(<<".", "/", "d", "/", "x">>, "B", 384),
      Lnk(<<".", "/", "l">>, <<".", "/", "f">>),
      File(<<".", "/", "d", "/", ".", "w", "h", ".", "o">>, "", 420),
      File(<<".", "/", "d", "/", ".", "w", "h", ".", ".", "w", "h", ".", ".", "o", "p", "q">>, "", 420),
      File(<<"d", "/", ".", ".", "/", ".", ".", "/", "x">>, "X", 420) }

\* the payload of another archive member of the same package
AltMembers ==
    { File(<<".", "/", "g">>, "G", 420),
      Dir(<<".", "/", "e">>, 493) }

\* the root of a second merge
DEST2 == <<"/", "s">>
DEST2KEY == << <<"s">> >>

\* a layer with a symbolic link to the root of the second merge and a member
\* whose path passes through it
ThroughMembers ==
    { Sym(<<".", "/", "t">>, DEST2),
      File(<<".", "/", "t", "/", "g">>, "P", 420),
      File(<<".", "/", "g">>, "A", 420) }

\* one path named by entries of every kind: regular files, a directory, a
\* symbolic link to a sibling, hard links to a present and to an absent
\* source, a hard link below a directory that does not exist yet, and FIFOs
\* named as the path, as the whiteout marker of a link and as a path above
\* the root
SamePathMembers ==
    { File(<<"f">>, "C", 420),
      File(<<"p">>, "A", 420),
      File(<<"p">>, "B", 384),
      Dir(<<"p">>, 488),
      Sym(<<"p">>, <<"t">>),
      Lnk(<<"p">>, <<"f">>),
      Lnk(<<"n", "/", "p">>, <<"f">>),
      Lnk(<<"n", "/", "q">>, <<"g">>),
      Other(<<"p">>),
      Other(<<"n", "/", ".", "w", "h", ".", "p">>),
      Other(<<"p", "/", ".", ".", "/", ".", ".", "/", "x">>) }

\* directory entries with modes: one directory named twice with different
\* modes, a directory below it, another directory, and a symbolic link to
\* the first directory that is itself named by a directory entry
ModeMembers ==
    { Dir(<<"p">>, 488),
      Dir(<<"p">>, 448),
      Dir(<<"p", "/", "s">>, 320),
      Dir(<<"q">>, 1472),
      Sym(<<"k">>, <<"p">>),
      Dir(<<"k">>, 320) }

\* names below the PostgreSQL include directory, as a package stores them
INC == <<".", "/">> \o PG_INCLUDE
HeaderOf(e) == Slash(Slash(Slash(INC, e), SERVER), PG_CONFIG_H)

\* the payload of a package with PostgreSQL headers: server headers of two
\* versions (16 sorts before 9), the top-level header itself, a directory
\* named like a server header, and a file elsewhere
HeaderMembers ==
    { File(HeaderOf(<<"1", "6">>), "P", 420),
      File(HeaderOf(<<"9">>), "Q", 384),
      File(Slash(INC, PG_CONFIG_H), "T", 420),
      Dir(HeaderOf(<<"z", "z">>), 493),
      File(<<".", "/", "g">>, "G", 420) }

\* whiteout markers whose base name is the bare prefix: in a directory and,
\* through a name that normalizes to it, at the root; next to them an
\* ordinary whiteout and files to remove
BareMarkerMembers ==
    { File(<<"d", "/", "x">>, "A", 420),
      File(<<"f">>, "F", 420),
      File(<<"d", "/", ".", "w", "h", ".", "x">>, "", 420),
      File(<<"d", "/", ".", "w", "h", ".">>, "", 420),
      File(<<"d", "/", ".", ".", "/", ".", "w", "h", ".">>, "", 420),
      File(<<"d", "/", "y">>, "B", 384) }

\* the members a layer archive of each family may hold
Archive(family) ==
    CASE family = "hostile" -> HostileMembers
      [] family = "layers" -> LayerMembers
      [] family = "whiteout" -> WhiteoutMembers
      [] family = "deb" -> DebMembers
      [] family = "alt" -> AltMembers
      [] family = "through" -> ThroughMembers
      [] family = "samepath" -> SamePathMembers
      [] family = "modes" -> ModeMembers
      [] family = "headers" -> HeaderMembers
      [] family = "bare" -> BareMarkerMembers

\* _write_tarball: what archive.add(src_dir, arcname=".") records, the
\* entries below root under their names relative to it (regular files with
\* their inode, so that hard links stay links)
Snapshot(d, root) ==
    LET rel(k) == SubSeq(k, Len(root) + 1, Len(k))
        keys == {k \in DOMAIN d.tree : IsPrefix(root, k)}
        t == [r \in {rel(k) : k \in keys} |-> d.tree[root \o r]]
    IN [made |-> TRUE, tree |-> t, files |-> LiveFiles(t, d.files)]

\* no file at the output path
NoTar == [made |-> FALSE, tree |-> <<>>, files |-> <<>>]

\* tarfile.open(tarball, "w") closed before anything was added
EmptyTar == [made |-> TRUE, tree |-> <<>>, files |-> <<>>]

\* the directory entry of the destination root
DESTKEY == << <<"r">> >>

\* _normalize_member_name has not been called
NotAsked == [tag |-> "none"]

\* no second merge runs
NoPeer == [pc |-> "none", pending_links |-> <<>>, dir_perms |-> <<>>, members |-> <<>>,
           err |-> ""]

MaxMembers == 3

VARIABLES
    disk,           \* the filesystem
    pending_links,  \* _extract_layer's pending_links
    dir_perms,      \* _extract_layer's dir_perms
    pc,             \* "idle" | "members" | "perms" | "failed"
    layers,         \* the members read so far, layer by layer
    inputs,         \* which family of members the layer archives hold
    layer0,         \* the filesystem when the current layer was opened
    pre,            \* the filesystem before the last step
    step,           \* the last step: "init" | "open" | "member" | "links" | "perms" | ...
    tool,           \* the entry point that runs: "export" | "overlay" | "extract"
    output,         \* export: the output tarball (made: the file exists)
    packages,       \* overlay: the packages handed to _apply_deb_package so far
    peer,           \* a second merge that runs at the same time on another root
    raw,            \* PathSanitizer alone: the raw name it is given
    normal          \* PathSanitizer alone: what it answered

vars == <<disk, pending_links, dir_perms, pc, layers, inputs, layer0, pre, step,
          tool, output, packages, peer, raw, normal>>

\* what the merge loop itself never touches
entry == <<tool, output, packages, peer, raw, normal>>

RECURSIVE Total(_)
Total(ls) == IF ls = <<>> THEN 0 ELSE Len(Head(ls)) + Total(Tail(ls))

Current == layers[Len(layers)]

\* Faulty variant of OpenLayer: the buffers of the layer before are kept.
OpenLayer_keep ==
    /\ pc = "idle"
    /\ Total(layers) < MaxMembers
    /\ pc' = "members"
    /\ layers' = Append(layers, <<>>)
    /\ layer0' = disk
    /\ pre' = disk
    /\ step' = "open"
    /\ UNCHANGED <<disk, pending_links, dir_perms, inputs, entry>>

\* main: the next layer of _layout_layers is opened by _extract_layer
OpenLayer ==
    /\ pc = "idle"
    /\ Total(layers) < MaxMembers
    /\ pc' = "members"
    /\ layers' = Append(layers, <<>>)
    /\ pending_links' = <<>>
    /\ dir_perms' = <<>>
    /\ layer0' = disk
    /\ pre' = disk
    /\ step' = "open"
    /\ UNCHANGED <<disk, inputs, entry>>

\* the member loop has handled member m and is left in S: an exception
\* ends the loop
Handles(S, m) ==
    /\ disk' = S.disk
    /\ pending_links' = S.pending_links
    /\ dir_perms' = S.dir_perms
    /\ pc' = IF S.disk.err # "" THEN "failed" ELSE "members"
    /\ layers' = [layers EXCEPT ![Len(layers)] = Append(@, m)]

\* Faulty variant of NextMember: the exception of a member is swallowed and
\* the loop goes on with the next member.
NextMember_swallow ==
    /\ pc = "members"
    /\ Total(layers) < MaxMembers
    /\ \E m \in Archive(inputs) :
         LET S == ExtractOne(Pass(disk, pending_links, dir_perms), m)
         IN /\ disk' = S.disk
            /\ pending_links' = S.pending_links
            /\ dir_perms' = S.dir_perms
            /\ pc' = "members"
            /\ layers' = [layers EXCEPT ![Len(layers)] = Append(@, m)]
    /\ pre' = disk
    /\ step' = "member"
    /\ UNCHANGED <<inputs, layer0, entry>>

\* _extract_layer: the archive yields member m, which is handled
NextMember ==
    /\ pc = "members"
    /\ Total(layers) < MaxMembers
    /\ \E m \in Archive(inputs) :
         Handles(ExtractOne(Pass(disk, pending_links, dir_perms), m), m)
    /\ pre' = disk
    /\ step' = "member"
    /\ UNCHANGED <<inputs, layer0, entry>>

\* _extract_layer: the archive is exhausted, the pending hard links are made
ApplyHardlinks ==
    /\ pc = "members"
    /\ Current # <<>>
    /\ disk' = ResolveLinks(disk, pending_links)
    /\ pc' = IF disk'.err # "" THEN "failed" ELSE "perms"
    /\ pre' = disk
    /\ step' = "links"
    /\ UNCHANGED <<pending_links, dir_perms, layers, inputs, layer0, entry>>

\* _extract_layer: the recorded directory modes are applied, the layer is done
ApplyDirPerms ==
    /\ pc = "perms"
    /\ disk' = FinalizePerms(disk, dir_perms)
    /\ pc' = IF disk'.err # "" THEN "failed" ELSE "idle"
    /\ pre' = disk
    /\ step' = "perms"
    /\ UNCHANGED <<pending_links, dir_perms, layers, inputs, layer0, entry>>

Next == OpenLayer \/ NextMember \/ ApplyHardlinks \/ ApplyDirPerms

InitWith(members) ==
    /\ disk = InitDisk
    /\ pending_links = <<>>
    /\ dir_perms = <<>>
    /\ pc = "idle"
    /\ layers = <<>>
    /\ inputs = members
    /\ layer0 = InitDisk
    /\ pre = InitDisk
    /\ step = "init"
    /\ tool = "export"
    /\ output = NoTar
    /\ packages = <<>>
    /\ peer = NoPeer
    /\ raw = <<>>
    /\ normal = NotAsked

Init == InitWith("hostile")

Spec == Init /\ [][Next]_vars

InitLayers == InitWith("layers")

SpecLayers == InitLayers /\ [][Next]_vars

InitWhiteout == InitWith("whiteout")

SpecWhiteout == InitWhiteout /\ [][Next]_vars

InitSamePath == InitWith("samepath")

SpecSamePath == InitSamePath /\ [][Next]_vars

InitModes == InitWith("modes")

SpecModes == InitModes /\ [][Next]_vars

InitBareMarker == InitWith("bare")

SpecBareMarker == InitBareMarker /\ [][Next]_vars

\* ------------------------------------------------------------------------
\* export_rootfs_from_layout.main: the tarball and the work directory
\* ------------------------------------------------------------------------

\* main: every layer is extracted; os.makedirs(dirname(output_path)) and
\* _write_tarball.  usable: the output directory exists or can be created.
WriteTarball ==
    /\ tool = "export"
    /\ pc = "idle"
    /\ \E usable \in BOOLEAN :
         IF ~usable
           THEN /\ disk' = Fail(disk, "FileExistsError")
                /\ output' = output
                /\ pc' = "failed"
         ELSE IF ~lexists(disk, DEST)
           THEN /\ disk' = Fail(disk, "FileNotFoundError")
                /\ output' = EmptyTar
                /\ pc' = "failed"
         ELSE /\ disk' = disk
              /\ output' = Snapshot(disk, DESTKEY)
              /\ pc' = "written"
    /\ pre' = disk
    /\ step' = "tarball"
    /\ UNCHANGED <<pending_links, dir_perms, layers, inputs, layer0, tool, packages, peer, raw, normal>>

\* Faulty variant of Cleanup: the work directory is removed after a
\* successful export only.
Cleanup_success_only ==
    /\ tool = "export"
    /\ pc \in {"written", "failed"}
    /\ disk' = IF pc = "written"
               THEN Remove(disk, {k \in DOMAIN disk.tree : IsPrefix(DESTKEY, k)})
               ELSE disk
    /\ pc' = "exited"
    /\ pre' = disk
    /\ step' = "cleanup"
    /\ UNCHANGED <<pending_links, dir_perms, layers, inputs, layer0, entry>>

\* main: finally shutil.rmtree(work_dir, ignore_errors=True); an exception
\* that was raised goes on to the caller (disk.err stays set)
Cleanup ==
    /\ tool = "export"
    /\ pc \in {"written", "failed"}
    /\ disk' = Remove(disk, {k \in DOMAIN disk.tree : IsPrefix(DESTKEY, k)})
    /\ pc' = "exited"
    /\ pre' = disk
    /\ step' = "cleanup"
    /\ UNCHANGED <<pending_links, dir_perms, layers, inputs, layer0, entry>>

NextExport == Next \/ WriteTarball \/ Cleanup

SpecExport == Init /\ [][NextExport]_vars

\* ------------------------------------------------------------------------
\* overlay_deb_packages.main
\* ------------------------------------------------------------------------

\* the destination as the caller hands it over: a directory with content
\* (the file f, the file k, the directory d with the file d/o), no entry at
\* all, a regular file, or a symbolic link to the directory /etc
Rootfs(kind) ==
    LET base == [InitDisk EXCEPT !.tree = [k \in DOMAIN InitDisk.tree \ {DESTKEY} |->
                                              InitDisk.tree[k]]]
        put(d, name, data, mode) == chmod(writefile(d, pathjoin(DEST, name), data),
                                          pathjoin(DEST, name), mode)
    IN IF kind = "absent" THEN base
       ELSE IF kind = "file" THEN chmod(writefile(base, DEST, "R"), DEST, 420)
       ELSE IF kind = "link" THEN symlink(base, <<"/">> \o ETC, DEST)
       ELSE put(put(put(makedirs(InitDisk, pathjoin(DEST, <<"d">>)),
                        <<"f">>, "old", 384), <<"k">>, "K", 416), <<"d", "/", "o">>, "O", 420)

\* the package files main may be given
Packages ==
    { Deb(<<ArMember(DEBIAN_BINARY, "plain", "alt"),
            ArMember(CONTROL_TAR_GZ, "gz", "alt"),
            ArMember(<<"d", "a", "t", "a", ".", "t", "a", "r", ".", "x", "z">>, "xz", "deb")>>),
      Deb(<<ArMember(DEBIAN_BINARY, "plain", "alt"),
            ArMember(CONTROL_TAR_GZ, "gz", "alt")>>),
      Deb(<<ArMember(<<"d", "a", "t", "a", ".", "t", "a", "r", ".", "g", "z", "/">>, "gz", "deb"),
            ArMember(<<"d", "a", "t", "a", ".", "t", "a", "r">>, "plain", "alt"),
            ArBroken("short")>>),
      Deb(<<ArMember(DEBIAN_BINARY, "plain", "alt"),
            ArMember(<<"d", "a", "t", "a", ".", "t", "a", "r", ".", "z", "s", "t">>, "zst", "deb")>>),
      Deb(<<ArMember(DEBIAN_BINARY, "plain", "alt"),
            ArBroken("badsize"),
            ArMember(<<"d", "a", "t", "a", ".", "t", "a", "r">>, "plain", "deb")>>),
      [Deb(<<>>) EXCEPT !.magic = FALSE],
      [Deb(<<>>) EXCEPT !.file = FALSE] }

\* Faulty variant of OverlayStart: a missing rootfs is created.
OverlayStart_creates ==
    /\ tool = "overlay"
    /\ pc = "start"
    /\ disk' = makedirs(disk, DEST)
    /\ pc' = IF disk'.err # "" THEN "failed" ELSE "idle"
    /\ pre' = disk
    /\ step' = "start"
    /\ UNCHANGED <<pending_links, dir_perms, layers, inputs, layer0, entry>>

\* main: rootfs must be a directory
OverlayStart ==
    /\ tool = "overlay"
    /\ pc = "start"
    /\ IF isdir(disk, DEST)
         THEN disk' = disk /\ pc' = "idle"
         ELSE disk' = Fail(disk, "ValueError") /\ pc' = "failed"
    /\ pre' = disk
    /\ step' = "start"
    /\ UNCHANGED <<pending_links, dir_perms, layers, inputs, layer0, entry>>

\* packages with PostgreSQL headers, and a package path that is no file
HeaderPackages ==
    { Deb(<<ArMember(DEBIAN_BINARY, "plain", "alt"),
            ArMember(<<"d", "a", "t", "a", ".", "t", "a", "r", ".", "x", "z">>, "xz", "headers")>>),
      [Deb(<<>>) EXCEPT !.file = FALSE] }

\* args.packages: the packages the run may be given
Offered == IF inputs = "headers" THEN HeaderPackages ELSE Packages

\* main: the next package; _apply_deb_package up to the point where
\* _extract_tar_stream has opened the payload
OpenPackage ==
    /\ tool = "overlay"
    /\ pc = "idle"
    /\ Total(layers) < MaxMembers
    /\ \E pkg \in Offered :
         LET found == ScanAr(pkg.members, 1)
             m == pkg.members[found.at]
         IN /\ packages' = Append(packages, pkg)
            /\ IF ~pkg.file \/ ~pkg.magic \/ found.tag = "raise"
                 THEN /\ disk' = Fail(disk, "ValueError")
                      /\ pc' = "failed"
                      /\ UNCHANGED <<layers, inputs>>
               ELSE IF ~Readable(_open_data_stream(RStripSlash(m.name)), m.codec)
                 THEN /\ disk' = Fail(disk, "ReadError")
                      /\ pc' = "failed"
                      /\ UNCHANGED <<layers, inputs>>
               ELSE /\ disk' = disk
                    /\ pc' = "members"
                    /\ layers' = Append(layers, <<>>)
                    /\ inputs' = m.family
    /\ pending_links' = <<>>
    /\ dir_perms' = <<>>
    /\ layer0' = disk
    /\ pre' = disk
    /\ step' = "open"
    /\ UNCHANGED <<tool, output, peer, raw, normal>>

\* _extract_tar_stream: the archive yields member m, which is handled
StreamMember ==
    /\ tool = "overlay"
    /\ pc = "members"
    /\ Total(layers) < MaxMembers
    /\ \E m \in Archive(inputs) :
         Handles(StreamOne(Pass(disk, pending_links, dir_perms), m, DEST), m)
    /\ pre' = disk
    /\ step' = "member"
    /\ UNCHANGED <<inputs, layer0, entry>>

\* _extract_tar_stream: _apply_hardlinks
StreamLinks ==
    /\ tool = "overlay"
    /\ pc = "members"
    /\ Current # <<>>
    /\ disk' = _apply_hardlinks(disk, DEST, pending_links)
    /\ pc' = IF disk'.err # "" THEN "failed" ELSE "perms"
    /\ pre' = disk
    /\ step' = "links"
    /\ UNCHANGED <<pending_links, dir_perms, layers, inputs, layer0, entry>>

\* _extract_tar_stream: _apply_dir_perms; _apply_deb_package returns
StreamPerms ==
    /\ tool = "overlay"
    /\ pc = "perms"
    /\ disk' = _apply_dir_perms(disk, dir_perms)
    /\ pc' = IF disk'.err # "" THEN "failed" ELSE "idle"
    /\ pre' = disk
    /\ step' = "perms"
    /\ UNCHANGED <<pending_links, dir_perms, layers, inputs, layer0, entry>>

\* main: every package is applied; _ensure_pg_config_header
EnsureHeader ==
    /\ tool = "overlay"
    /\ pc = "idle"
    /\ packages # <<>>
    /\ disk' = _ensure_pg_config_header(disk, DEST)
    /\ pc' = IF disk'.err # "" THEN "failed" ELSE "exited"
    /\ pre' = disk
    /\ step' = "header"
    /\ UNCHANGED <<pending_links, dir_perms, layers, inputs, layer0, entry>>

NextOverlay ==
    OverlayStart \/ OpenPackage \/ StreamMember \/ StreamLinks \/ StreamPerms \/ EnsureHeader

InitOverlay ==
    /\ \E kind \in {"dir", "absent", "file"} : disk = Rootfs(kind)
    /\ pending_links = <<>>
    /\ dir_perms = <<>>
    /\ pc = "start"
    /\ layers = <<>>
    /\ inputs = "deb"
    /\ layer0 = disk
    /\ pre = disk
    /\ step = "init"
    /\ tool = "overlay"
    /\ output = NoTar
    /\ packages = <<>>
    /\ peer = NoPeer
    /\ raw = <<>>
    /\ normal = NotAsked

SpecOverlay == InitOverlay /\ [][NextOverlay]_vars

\* the rootfs given to a run that overlays header packages: without the
\* include directory, with the top-level header, with the server header of
\* version 14 only, or not there at all
HeaderRoot(kind) ==
    LET put(d, name, data, mode) == chmod(writefile(d, pathjoin(DEST, name), data),
                                          pathjoin(DEST, name), mode)
        made(name) == makedirs(Rootfs("dir"), pathjoin(DEST, dirname(name)))
        top == pathjoin(PG_INCLUDE, PG_CONFIG_H)
        v14 == pathjoin(pathjoin(pathjoin(PG_INCLUDE, <<"1", "4">>), SERVER), PG_CONFIG_H)
    IN IF kind = "absent" THEN Rootfs("absent")
       ELSE IF kind = "top" THEN put(made(top), top, "old", 416)
       ELSE IF kind = "v14" THEN put(made(v14), v14, "H", 288)
       ELSE Rootfs("dir")

InitHeaders ==
    /\ \E kind \in {"bare", "top", "v14", "absent"} : disk = HeaderRoot(kind)
    /\ pending_links = <<>>
    /\ dir_perms = <<>>
    /\ pc = "start"
    /\ layers = <<>>
    /\ inputs = "headers"
    /\ layer0 = disk
    /\ pre = disk
    /\ step = "init"
    /\ tool = "overlay"
    /\ output = NoTar
    /\ packages = <<>>
    /\ peer = NoPeer
    /\ raw = <<>>
    /\ normal = NotAsked

SpecHeaders == InitHeaders /\ [][NextOverlay]_vars

\* ------------------------------------------------------------------------
\* extract_rootfs.main
\* ------------------------------------------------------------------------

\* extract_rootfs._safe_rmtree.  shutil.rmtree hands its errors to _onerror,
\* which makes the target user-accessible (0o700) and retries the call that
\* failed: on a symbolic link the retried os.path.islink does not raise and
\* nothing is removed; on a regular file the retried os.scandir raises again.
_safe_rmtree(d, path) ==
    IF d.err # "" \/ ~exists(d, path) THEN d
    ELSE LET kind == d.tree[Lstat(d, path).key].kind
         IN IF kind = "sym" THEN chmod(d, path, 448)
            ELSE IF kind = "file" THEN Fail(chmod(d, path, 448), "NotADirectoryError")
            ELSE rmtree(d, path)

\* tarfile.open(tarball, "r:*") once the destination d is there
Opened(d, readable) == IF d.err = "" /\ ~readable THEN Fail(d, "ReadError") ELSE d

\* Faulty variant of ExtractStart: an existing destination is kept and
\* extracted into.
ExtractStart_keep ==
    /\ tool = "extract"
    /\ pc = "start"
    /\ \E readable \in BOOLEAN : disk' = Opened(makedirs(disk, DEST), readable)
    /\ pc' = IF disk'.err # "" THEN "failed" ELSE "members"
    /\ layers' = IF disk'.err # "" THEN layers ELSE Append(layers, <<>>)
    /\ pending_links' = <<>>
    /\ dir_perms' = <<>>
    /\ layer0' = disk
    /\ pre' = disk
    /\ step' = "start"
    /\ UNCHANGED <<inputs, entry>>

\* main: an existing destination is removed, the destination is created,
\* the tarball is opened.  readable: tarfile can open the tarball.
ExtractStart ==
    /\ tool = "extract"
    /\ pc = "start"
    /\ \E readable \in BOOLEAN :
         disk' = Opened(makedirs(IF exists(disk, DEST) THEN _safe_rmtree(disk, DEST)
                                 ELSE disk, DEST), readable)
    /\ pc' = IF disk'.err # "" THEN "failed" ELSE "members"
    /\ layers' = IF disk'.err # "" THEN layers ELSE Append(layers, <<>>)
    /\ pending_links' = <<>>
    /\ dir_perms' = <<>>
    /\ layer0' = disk
    /\ pre' = disk
    /\ step' = "start"
    /\ UNCHANGED <<inputs, entry>>

\* main: the archive yields member m, which is handled
ExtractMember ==
    /\ tool = "extract"
    /\ pc = "members"
    /\ Total(layers) < MaxMembers
    /\ \E m \in Archive(inputs) :
         Handles(ExtractOne(Pass(disk, pending_links, dir_perms), m), m)
    /\ pre' = disk
    /\ step' = "member"
    /\ UNCHANGED <<inputs, layer0, entry>>

\* main: the archive is exhausted, the pending hard links are made
ExtractLinks ==
    /\ tool = "extract"
    /\ pc = "members"
    /\ disk' = ResolveLinks(disk, pending_links)
    /\ pc' = IF disk'.err # "" THEN "failed" ELSE "perms"
    /\ pre' = disk
    /\ step' = "links"
    /\ UNCHANGED <<pending_links, dir_perms, layers, inputs, layer0, entry>>

\* main: the recorded directory modes are applied, main returns
ExtractPerms ==
    /\ tool = "extract"
    /\ pc = "perms"
    /\ disk' = FinalizePerms(disk, dir_perms)
    /\ pc' = IF disk'.err # "" THEN "failed" ELSE "exited"
    /\ pre' = disk
    /\ step' = "perms"
    /\ UNCHANGED <<pending_links, dir_perms, layers, inputs, layer0, entry>>

NextExtract == ExtractStart \/ ExtractMember \/ ExtractLinks \/ ExtractPerms

InitExtract ==
    /\ \E kind \in {"dir", "absent", "file", "link"} : disk = Rootfs(kind)
    /\ pending_links = <<>>
    /\ dir_perms = <<>>
    /\ pc = "start"
    /\ layers = <<>>
    /\ inputs \in {"deb", "alt"}
    /\ layer0 = disk
    /\ pre = disk
    /\ step = "init"
    /\ tool = "extract"
    /\ output = NoTar
    /\ packages = <<>>
    /\ peer = NoPeer
    /\ raw = <<>>
    /\ normal = NotAsked

SpecExtract == InitExtract /\ [][NextExtract]_vars

\* the two entry points that are given a destination directory
InitRoots == InitOverlay \/ InitExtract

NextRoots == NextOverlay \/ NextExtract

SpecRoots == InitRoots /\ [][NextRoots]_vars

\* ------------------------------------------------------------------------
\* Two merges at the same time: _extract_layer on DEST, _extract_tar_stream
\* on DEST2, their per-member steps interleaved on one filesystem.  Each has
\* its own pending_links, dir_perms and exception; disk.err is the first
\* merge's, peer.err the second's.
\* ------------------------------------------------------------------------

PeersDisk == makedirs(InitDisk, DEST2)

\* the filesystem as the second merge sees it, and as it leaves it
PeerView == [disk EXCEPT !.err = ""]
PeerLeaves(d) == [d EXCEPT !.err = disk.err]

\* the member loop of the second merge has handled m and is left in S
PeerHandles(S, m) ==
    /\ disk' = PeerLeaves(S.disk)
    /\ peer' = [pc |-> IF S.disk.err # "" THEN "failed" ELSE "members",
                pending_links |-> S.pending_links,
                dir_perms |-> S.dir_perms,
                members |-> Append(peer.members, m),
                err |-> S.disk.err]

\* a pass of the second merge has left the filesystem d: an exception ends
\* the merge, otherwise it goes on to then
PeerPasses(d, then) ==
    /\ disk' = PeerLeaves(d)
    /\ peer' = [peer EXCEPT !.pc = IF d.err # "" THEN "failed" ELSE then,
                            !.err = d.err]

\* _extract_tar_stream of the second merge: the archive yields member m
PeerMember ==
    /\ peer.pc = "members"
    /\ Len(peer.members) < MaxMembers
    /\ \E m \in AltMembers :
         PeerHandles(StreamOne(Pass(PeerView, peer.pending_links, peer.dir_perms),
                               m, DEST2), m)
    /\ UNCHANGED <<pending_links, dir_perms, pc, layers, inputs, layer0, pre, step,
                   tool, output, packages, raw, normal>>

\* _extract_tar_stream of the second merge: _apply_hardlinks
PeerLinks ==
    /\ peer.pc = "members"
    /\ PeerPasses(_apply_hardlinks(PeerView, DEST2, peer.pending_links), "perms")
    /\ UNCHANGED <<pending_links, dir_perms, pc, layers, inputs, layer0, pre, step,
                   tool, output, packages, raw, normal>>

\* _extract_tar_stream of the second merge: _apply_dir_perms, and it returns
PeerPerms ==
    /\ peer.pc = "perms"
    /\ PeerPasses(_apply_dir_perms(PeerView, peer.dir_perms), "done")
    /\ UNCHANGED <<pending_links, dir_perms, pc, layers, inputs, layer0, pre, step,
                   tool, output, packages, raw, normal>>

NextPeers == Next \/ PeerMember \/ PeerLinks \/ PeerPerms

InitPeers ==
    /\ disk = PeersDisk
    /\ pending_links = <<>>
    /\ dir_perms = <<>>
    /\ pc = "idle"
    /\ layers = <<>>
    /\ inputs = "through"
    /\ layer0 = PeersDisk
    /\ pre = PeersDisk
    /\ step = "init"
    /\ tool = "export"
    /\ output = NoTar
    /\ packages = <<>>
    /\ peer = [NoPeer EXCEPT !.pc = "members"]
    /\ raw = <<>>
    /\ normal = NotAsked

SpecPeers == InitPeers /\ [][NextPeers]_vars

RECURSIVE ExtractLayers(_, _)
\* export main: for layer in _layout_layers(layout_dir): _extract_layer
ExtractLayers(d, ls) ==
    IF ls = <<>> THEN d ELSE ExtractLayers(_extract_layer(d, Head(ls)), Tail(ls))

\* ------------------------------------------------------------------------
\* PathSanitizer alone: _normalize_member_name applied to a raw name
\* ------------------------------------------------------------------------

MaxNameLen == 7

\* the raw names a tar header or an ar payload may hold, over the
\* characters that matter to the sanitizer
RawNames == UNION {[1..n -> {".", "/", "a"}] : n \in 0..MaxNameLen}

\* extract_rootfs._normalize_member_name(raw)
NormalizeExtract ==
    /\ tool = "extract"
    /\ pc = "start"
    /\ normal' = _normalize_member_name(raw)
    /\ pc' = "exited"
    /\ step' = "normalize"
    /\ UNCHANGED <<disk, pending_links, dir_perms, layers, inputs, layer0, pre,
                   tool, output, packages, peer, raw>>

\* overlay_deb_packages._normalize_member_name(raw)
NormalizeOverlay ==
    /\ tool = "overlay"
    /\ pc = "start"
    /\ normal' = overlay_normalize_member_name(raw)
    /\ pc' = "exited"
    /\ step' = "normalize"
    /\ UNCHANGED <<disk, pending_links, dir_perms, layers, inputs, layer0, pre,
                   tool, output, packages, peer, raw>>

NextNames == NormalizeExtract \/ NormalizeOverlay

InitNames ==
    /\ disk = InitDisk
    /\ pending_links = <<>>
    /\ dir_perms = <<>>
    /\ pc = "start"
    /\ layers = <<>>
    /\ inputs = "alt"
    /\ layer0 = InitDisk
    /\ pre = InitDisk
    /\ step = "init"
    /\ tool \in {"extract", "overlay"}
    /\ output = NoTar
    /\ packages = <<>>
    /\ peer = NoPeer
    /\ raw \in RawNames
    /\ normal = NotAsked

SpecNames == InitNames /\ [][NextNames]_vars

\* ------------------------------------------------------------------------
\* Properties
\* ------------------------------------------------------------------------

LastMember == Current[Len(Current)]

\* the member just handled by the loop of _extract_layer
Handled == step = "member" /\ LastMember.kind \in KINDS

InRoot(key) == IsPrefix(<< <<"r">> >>, key)

\* joined to the destination root, the name lexically leaves the root
LexEscapes(name) ==
    LET n == normpath(pathjoin(DEST, name))
    IN ~(n = DEST \/ StartsWith(n, DEST \o <<"/">>))

OutsideUntouched(d) ==
    /\ {k \in DOMAIN d.tree : ~InRoot(k)} = {k \in DOMAIN InitDisk.tree : ~InRoot(k)}
    /\ \A k \in DOMAIN d.tree : ~InRoot(k) => View(d, k) = View(InitDisk, k)

\* C1: a member whose name, or whose hard-link target, lexically resolves
\* outside the destination root makes the merge fail with the path-traversal
\* error at that member; it is never turned into an in-root path, and nothing
\* outside the root is written.
C1_TraversalRejected ==
    (Handled /\ (\/ LexEscapes(LastMember.name)
                 \/ (LastMember.kind = "lnk" /\ LexEscapes(LastMember.linkname))))
        => (pc = "failed" /\ disk.err = "ValueError" /\ OutsideUntouched(disk))

\* C2: whatever the layers hold, symbolic links included, every object the
\* engine created, overwrote, chmod-ed or removed lies inside the destination
\* root: the filesystem outside the root stays as it was.
C2_NothingOutsideRootTouched == OutsideUntouched(disk)

IsMarkerName(name) == basename(name) = OPQ \/ StartsWith(basename(name), WH)

\* C10: a member whose stored base name is the opaque marker or begins with
\* ".wh.", at any depth, is consumed as a whiteout directive: handling it
\* creates no file, directory or link in the destination.
C10_MarkerNeverMaterialized ==
    (Handled /\ IsMarkerName(LastMember.name))
        => DOMAIN disk.tree \subseteq DOMAIN pre.tree
\* the relative path _normalize_member_name gives a member
RelOf(m) == _normalize_member_name(m.name)
PathOf(m) == pathjoin(DEST, RelOf(m).path)

IsMarkerRel(rel) == basename(rel) = OPQ \/ StartsWith(basename(rel), WH)

\* a member that reaches _extract_member
Ordinary(m) == m.kind \in KINDS /\ RelOf(m).tag = "path" /\ ~IsMarkerRel(RelOf(m).path)
WritesFile(m) == m.kind = "file" /\ Ordinary(m)
NamesDir(m) == m.kind = "dir" /\ Ordinary(m)

IsOpaque(m) == m.kind \in KINDS /\ RelOf(m).tag = "path" /\ basename(RelOf(m).path) = OPQ

LayerDone == pc = "idle" /\ step = "perms"

Range(seq) == {seq[i] : i \in 1..Len(seq)}

\* C3: later layer wins.  When an earlier layer wrote the regular file f and
\* the last layer applied is the regular file f with bytes B and mode m2, the
\* merged tree has f as a regular file holding exactly B with permission
\* bits exactly m2.
C3_LaterLayerWins ==
    (LayerDone /\ Len(layers) >= 2 /\ Len(Current) = 1 /\ WritesFile(Current[1]))
        => \A j \in 1..(Len(layers) - 1) : \A m1 \in Range(layers[j]) :
             (WritesFile(m1) /\ RelOf(m1) = RelOf(Current[1]))
                 => LET r == Lstat(disk, PathOf(Current[1]))
                    IN /\ r.st = "ok"
                       /\ View(disk, r.key) =
                            [kind |-> "file", data |-> Current[1].data,
                             mode |-> ModeBits(Current[1].mode)]

\* C3 witness: f written "A"/0644 by layer 1 and "B"/0600 by layer 2 is "B"/0600
C3_Witness ==
    /\ LayerDone
    /\ layers = << <<File(<<"f">>, "A", 420)>>, <<File(<<"f">>, "B", 384)>> >>
    /\ View(disk, << <<"r">>, <<"f">> >>) = [kind |-> "file", data |-> "B", mode |-> 384]

\* C4, the three-layer case.  When the layer before the last is an opaque
\* marker for directory p and the last layer creates the file p/y, then,
\* whatever the layers before the marker left in p, the final tree has the
\* directory p holding y and nothing else.
C4_OpaqueThenCreate ==
    (/\ LayerDone /\ Len(layers) >= 3
     /\ Len(layers[Len(layers) - 1]) = 1 /\ IsOpaque(layers[Len(layers) - 1][1])
     /\ Len(Current) = 1 /\ WritesFile(Current[1])
     /\ dirname(RelOf(Current[1]).path) = dirname(RelOf(layers[Len(layers) - 1][1]).path))
        => LET p == pathjoin(DEST, dirname(RelOf(Current[1]).path))
           IN /\ isdir(disk, p)
              /\ listdir(disk, p) = {basename(RelOf(Current[1]).path)}
              /\ isfile(disk, PathOf(Current[1]))

\* C4 witness: layer 1 creates d/x, layer 2 is the opaque marker of d, layer
\* 3 creates d/y; d holds only y
C4_Witness ==
    /\ LayerDone
    /\ layers = << <<File(<<"d", "/", "x">>, "A", 420)>>, <<File(<<"d", "/", ".", "w", "h", ".", ".", "w", "h", ".", ".", "o", "p", "q">>, "", 420)>>,
                   <<File(<<"d", "/", "y">>, "B", 420)>> >>
    /\ Children(disk, << <<"r">>, <<"d">> >>) = { << <<"r">>, <<"d">>, <<"y">> >> }
    /\ Children(layer0, << <<"r">>, <<"d">> >>) = {}

\* C5: deferred hard links resolve forward references.  When a layer is the
\* hard link "link -> target" followed by the regular file target, then
\* after the layer link and target both exist and are the same file, with
\* the bytes of the file member.
C5_ForwardHardlink ==
    (/\ LayerDone /\ Len(Current) = 2
     /\ Current[1].kind = "lnk" /\ Ordinary(Current[1]) /\ WritesFile(Current[2])
     /\ _normalize_member_name(Current[1].linkname) = RelOf(Current[2]))
        => LET l == Lstat(disk, PathOf(Current[1]))
               t == Lstat(disk, PathOf(Current[2]))
           IN /\ l.st = "ok" /\ t.st = "ok"
              /\ disk.tree[l.key].kind = "file"
              /\ disk.tree[l.key] = disk.tree[t.key]
              /\ View(disk, l.key).data = Current[2].data

\* C5 witness: the layer "l -> f", then f, on a tree without f
C5_Witness ==
    /\ LayerDone
    /\ Current = <<Lnk(<<"l">>, <<"f">>), File(<<"f">>, "A", 420)>>
    /\ ~lexists(layer0, pathjoin(DEST, <<"f">>))
    /\ disk.tree[<< <<"r">>, <<"l">> >>] = disk.tree[<< <<"r">>, <<"f">> >>]

ModeOf(d, path) == View(d, Stat(d, path).key).mode

KeyOf(path) == SelectSeq(Split(path), LAMBDA c : c # <<>>)
IsProperName(n) == n # <<>> /\ n # DOT /\ n # DOTDOT

\* path names an object of the tree directly (no symbolic link followed)
Plainly(d, path) == Lstat(d, path).st = "ok" /\ Lstat(d, path).key = KeyOf(path)

\* the tree d without the directory entries in gone, all else equal
SameExcept(after, before, gone) ==
    /\ DOMAIN after.tree = DOMAIN before.tree \ gone
    /\ \A k \in DOMAIN after.tree :
         after.tree[k] = before.tree[k] /\ View(after, k) = View(before, k)

\* the last step applied a whiteout directive: the relative path handed to
\* _apply_whiteout is a marker
Directive == Handled /\ RelOf(LastMember).tag = "path" /\ IsMarkerRel(RelOf(LastMember).path)
DirectiveRel == RelOf(LastMember).path
OpaqueDir == pathjoin(DEST, dirname(DirectiveRel))
ExplicitName == SubSeq(basename(DirectiveRel), 5, Len(basename(DirectiveRel)))
ExplicitTarget == pathjoin(DEST, pathjoin(dirname(DirectiveRel), ExplicitName))

\* C4, in general: the three-layer case above, and an opaque marker of layer
\* N hides exactly the children of its directory that layers before N
\* produced: all of those, and no child that layer N itself produced.
C4_MultiLayerSequencing ==
    /\ C4_OpaqueThenCreate
    /\ (/\ Directive /\ basename(DirectiveRel) = OPQ
        /\ Plainly(pre, OpaqueDir) /\ pre.tree[KeyOf(OpaqueDir)].kind = "dir")
           => /\ \A k \in Children(disk, KeyOf(OpaqueDir)) : k \notin DOMAIN layer0.tree
              /\ \A k \in Children(pre, KeyOf(OpaqueDir)) :
                    k \notin DOMAIN layer0.tree => k \in DOMAIN disk.tree

\* C7: an opaque marker d/.wh..wh..opq applied when d is a directory of the
\* destination removes every direct child of d (files, symbolic links,
\* whole subdirectories), leaves d in place and empty, changes nothing
\* outside d, and raises nothing.
C7_OpaqueClearsChildren ==
    (/\ Directive /\ basename(DirectiveRel) = OPQ
     /\ Plainly(pre, OpaqueDir) /\ pre.tree[KeyOf(OpaqueDir)].kind = "dir")
        => /\ pc = "members" /\ disk.err = ""
           /\ KeyOf(OpaqueDir) \in DOMAIN disk.tree
           /\ Children(disk, KeyOf(OpaqueDir)) = {}
           /\ SameExcept(disk, pre, {k \in DOMAIN pre.tree : Under(k, KeyOf(OpaqueDir))})

\* C7 witness: d held a file, a subdirectory with a file in it and a link to
\* /etc; after the marker d is empty, in place, and /etc still has its file
C7_Witness ==
    /\ Directive /\ DirectiveRel = <<"d", "/", ".", "w", "h", ".", ".", "w", "h", ".", ".", "o", "p", "q">>
    /\ Cardinality(Children(pre, KeyOf(OpaqueDir))) >= 2
    /\ \E k \in Children(pre, KeyOf(OpaqueDir)) : pre.tree[k].kind = "sym"
    /\ \E k \in Children(pre, KeyOf(OpaqueDir)) : pre.tree[k].kind = "dir"
    /\ Children(disk, KeyOf(OpaqueDir)) = {}
    /\ disk.tree[KeyOf(OpaqueDir)].kind = "dir"
    /\ << ETC, PW >> \in DOMAIN disk.tree

\* C8: an explicit whiteout p/.wh.n applied when p/n is a file, a symbolic
\* link or a directory removes p/n together with everything below it and
\* leaves every other path unchanged.
C8_ExplicitRemovesRecursively ==
    (/\ Directive /\ basename(DirectiveRel) # OPQ /\ IsProperName(ExplicitName)
     /\ Plainly(pre, ExplicitTarget))
        => /\ pc = "members" /\ disk.err = ""
           /\ SameExcept(disk, pre, {k \in DOMAIN pre.tree :
                                        IsPrefix(KeyOf(ExplicitTarget), k)})

\* C8 witness: the root-level directive for d, when d held nested content
C8_Witness ==
    /\ Directive /\ DirectiveRel = <<".", "w", "h", ".", "d">>
    /\ \E k \in DOMAIN pre.tree : Len(k) >= 4 /\ IsPrefix(KeyOf(ExplicitTarget), k)
    /\ ~lexists(disk, ExplicitTarget)

\* C8 witness for a symbolic link: the link is removed, its target is not
C8_WitnessLink ==
    /\ Directive /\ DirectiveRel = <<"d", "/", ".", "w", "h", ".", "k">>
    /\ Plainly(pre, ExplicitTarget) /\ pre.tree[KeyOf(ExplicitTarget)].kind = "sym"
    /\ ~lexists(disk, ExplicitTarget)
    /\ << ETC, PW >> \in DOMAIN disk.tree

\* C9: an opaque or explicit whiteout whose target path does not exist in
\* the destination leaves the whole tree unchanged and raises nothing.
C9_AbsentTargetNoOp ==
    (/\ Directive
     /\ IF basename(DirectiveRel) = OPQ THEN ~lexists(pre, OpaqueDir)
        ELSE ~lexists(pre, ExplicitTarget))
        => pc = "members" /\ disk = pre

\* C9 witness: a layer wrote a file, then met an opaque marker for a missing
\* directory and an explicit whiteout for a missing path; nothing changed
C9_Witness ==
    /\ Directive /\ Len(Current) = 3
    /\ WritesFile(Current[1])
    /\ IsOpaque(Current[2])
    /\ ~lexists(disk, pathjoin(DEST, dirname(RelOf(Current[2]).path)))
    /\ basename(DirectiveRel) # OPQ /\ ~lexists(pre, ExplicitTarget)
    /\ pc = "members" /\ disk = pre
    /\ Children(disk, KeyOf(DEST)) # {}


\* C11: a whiteout directive of layer N is resolved against the tree as it
\* stood before layer N started: whatever it removes was left by the layers
\* before N, and nothing materialized by earlier members of layer N itself
\* is removed by it.
C11_WhiteoutAgainstLayerStart ==
    Directive
        => \A k \in DOMAIN pre.tree \ DOMAIN disk.tree :
              /\ k \in DOMAIN layer0.tree
              /\ View(layer0, k) = View(pre, k)

C13_TarballAfterAllLayers ==
    [][/\ output' # output
            => pc = "idle" /\ disk.err = "" /\ step \in {"init", "perms"}
       /\ (pc' = "failed" /\ step' \in {"member", "links", "perms"}) => ~output'.made
       /\ (pc = "failed" /\ step \in {"member", "links", "perms"}) => ~output'.made
       /\ pc' = "exited" => {k \in DOMAIN disk'.tree : IsPrefix(DESTKEY, k)} = {}]_vars

\* C13 witness: the second layer failed after the first had been merged;
\* main has returned, there is no tarball and the work directory is gone
C13_Witness ==
    /\ pc = "exited" /\ disk.err = "ValueError"
    /\ Len(layers) = 2 /\ Len(layers[1]) >= 1
    /\ {k \in DOMAIN pre.tree : IsPrefix(DESTKEY, k)} # {DESTKEY}
    /\ ~lexists(disk, DEST)
    /\ ~output.made

\* C13 witness of the success path: the tarball holds the merged tree and
\* the work directory is gone
C13_WitnessSuccess ==
    /\ pc = "exited" /\ disk.err = ""
    /\ output.made /\ output = Snapshot(pre, DESTKEY)
    /\ Cardinality(DOMAIN output.tree) >= 3
    /\ ~lexists(disk, DEST)

\* two filesystems hold the same tree: same paths, kinds, bytes, modes, link
\* targets and hard-link groups
SameTree(a, b) ==
    /\ DOMAIN a.tree = DOMAIN b.tree
    /\ \A k \in DOMAIN a.tree : View(a, k) = View(b, k)
    /\ \A k, q \in {x \in DOMAIN a.tree : a.tree[x].kind = "file"} :
          (a.tree[k].ino = a.tree[q].ino) <=> (b.tree[k].ino = b.tree[q].ino)

\* the payload of a package has been applied: _extract_tar_stream returned
StreamDone == tool = "overlay" /\ pc = "idle" /\ step = "perms"

\* C14: the Debian overlay applies a package through the same pipeline as an
\* OCI layer: whatever the destination was before and whatever the members
\* are, _extract_tar_stream leaves the tree that _extract_layer leaves when
\* given the same members on the same destination.
C14_SamePipelineAsLayer ==
    StreamDone
        => LET layer == _extract_layer(layer0, Current)
           IN layer.err = "" /\ SameTree(disk, layer)

\* C15: when the rootfs given to the Debian overlay is not an existing
\* directory the run fails at once: an error is raised, no package is opened
\* or applied, and nothing is created or changed on the filesystem, then or
\* later.
C15_RootfsMustExist ==
    [][/\ (tool = "overlay" /\ pc = "start" /\ ~isdir(disk, DEST))
            => /\ pc' = "failed" /\ disk'.err # ""
               /\ disk'.tree = disk.tree /\ disk'.files = disk.files
               /\ packages' = <<>> /\ layers' = <<>>
       /\ (pc = "failed" /\ step = "start") => UNCHANGED vars]_vars

\* C15 witness: the rootfs path does not exist; the run has failed and there
\* is still nothing at that path
C15_Witness ==
    /\ tool = "overlay" /\ pc = "failed" /\ step = "start"
    /\ ~lexists(pre, DEST) /\ ~lexists(disk, DEST)
    /\ packages = <<>>

\* C15 witness: the rootfs path is a regular file
C15_WitnessFile ==
    /\ tool = "overlay" /\ pc = "failed" /\ step = "start"
    /\ isfile(pre, DEST) /\ isfile(disk, DEST)
    /\ packages = <<>>

\* the package _apply_deb_package was last called with
LastPackage == packages[Len(packages)]
IsDataName(name) == StartsWith(RStripSlash(name), DATA_TAR)
DataMembers(pkg) == {i \in 1..Len(pkg.members) :
                        pkg.members[i].hdr = "ok" /\ IsDataName(pkg.members[i].name)}
FirstData(pkg) == CHOOSE i \in DataMembers(pkg) : \A j \in DataMembers(pkg) : i <= j
\* an ar archive whose headers are intact up to member n
Intact(pkg, n) == pkg.file /\ pkg.magic /\ \A j \in 1..n : pkg.members[j].hdr = "ok"

\* C16: a package with no member whose name, trailing "/" stripped, starts
\* with data.tar fails with the missing-payload error and leaves the tree
\* unchanged.  When there is such a member the first one in archive order is
\* the payload that is opened, every member applied for this package comes
\* from it, and the package ends after it: one payload per package.
C16_FirstDataTarOnly ==
    /\ (tool = "overlay" /\ step = "open" /\ Intact(LastPackage, Len(LastPackage.members))
        /\ DataMembers(LastPackage) = {})
          => /\ pc = "failed" /\ disk.err = "ValueError"
             /\ disk.tree = pre.tree /\ disk.files = pre.files
    /\ (tool = "overlay" /\ step = "open" /\ DataMembers(LastPackage) # {}
        /\ Intact(LastPackage, FirstData(LastPackage))
        /\ Readable(_open_data_stream(RStripSlash(LastPackage.members[FirstData(LastPackage)].name)),
                    LastPackage.members[FirstData(LastPackage)].codec))
          => /\ pc = "members" /\ disk = pre
             /\ inputs = LastPackage.members[FirstData(LastPackage)].family
    /\ (tool = "overlay" /\ step \in {"member", "links", "perms"})
          => /\ Len(layers) <= Len(packages)
             /\ DataMembers(LastPackage) # {}
             /\ \A m \in Range(Current) :
                   m \in Archive(LastPackage.members[FirstData(LastPackage)].family)

\* C16 witness: a package without any data.tar member has failed and the
\* rootfs is as the package before it left it
C16_Witness ==
    /\ tool = "overlay" /\ step = "open" /\ pc = "failed"
    /\ Len(packages) = 2
    /\ Intact(LastPackage, Len(LastPackage.members)) /\ Len(LastPackage.members) = 2
    /\ DataMembers(LastPackage) = {}
    /\ layers # <<>> /\ Current # <<>>
    /\ disk.tree = pre.tree

\* C16 witness: of two data.tar members the first (data.tar.gz/) was
\* applied, the second never
C16_WitnessFirst ==
    /\ StreamDone
    /\ Cardinality(DataMembers(LastPackage)) = 2
    /\ Len(layers) = 1 /\ Len(packages) = 1
    /\ Current # <<>> /\ Range(Current) \subseteq DebMembers
    /\ \A m \in AltMembers : ~lexists(disk, PathOf(m))

\* the directory entries of the destination that handling member m may
\* overwrite or white out in the tree d: the entry m names and what lies
\* below it, the target of an explicit marker and what lies below it, the
\* children of an opaque marker's directory, and every other name of a
\* regular file among these (a hard link shares the bytes)
TouchedKeys(d, m) ==
    IF m.kind \notin KINDS \/ RelOf(m).tag # "path" THEN {}
    ELSE LET rel == RelOf(m).path
             base == basename(rel)
             dirK == KeyOf(pathjoin(DEST, dirname(rel)))
             named == {k \in DOMAIN d.tree : IsPrefix(KeyOf(pathjoin(DEST, rel)), k)}
             victim == IF base = OPQ THEN {k \in DOMAIN d.tree : Under(k, dirK)}
                       ELSE IF StartsWith(base, WH)
                         THEN {k \in DOMAIN d.tree :
                                  IsPrefix(Append(dirK, SubSeq(base, Len(WH) + 1, Len(base))), k)}
                       ELSE {}
             direct == named \cup victim
         IN direct \cup {k \in DOMAIN d.tree :
                            /\ d.tree[k].kind = "file"
                            /\ \E q \in direct : /\ d.tree[q].kind = "file"
                                                 /\ d.tree[q].ino = d.tree[k].ino}

\* what the last step may have overwritten or whited out
TouchedByStep ==
    CASE step = "member" -> TouchedKeys(pre, LastMember)
      [] step = "links" -> UNION {{k \in DOMAIN pre.tree :
                                      IsPrefix(KeyOf(pathjoin(DEST, l[2])), k)} :
                                  l \in Range(pending_links)}
      [] step = "perms" -> {KeyOf(p[1]) : p \in Range(dir_perms)}
      [] OTHER -> {}

\* every object of the destination that is not in touched is in after what
\* it was in before
Kept(after, before, touched) ==
    \A k \in DOMAIN before.tree :
        (InRoot(k) /\ k \notin touched)
            => k \in DOMAIN after.tree /\ View(after, k) = View(before, k)

\* the destination root is a directory, not a symbolic link to one
RealRoot(d) == DESTKEY \in DOMAIN d.tree /\ d.tree[DESTKEY].kind = "dir"

EmptyRoot(d) == RealRoot(d) /\ {k \in DOMAIN d.tree : Under(k, DESTKEY)} = {}

C17_WitnessMerge ==
    /\ tool = "overlay" /\ step = "member" /\ pc = "members"
    /\ WritesFile(LastMember) /\ RelOf(LastMember).path = <<"f">>
    /\ View(pre, <<<<"r">>, <<"f">>>>).data = "old"
    /\ View(disk, <<<<"r">>, <<"f">>>>).data = "A"
    /\ View(disk, <<<<"r">>, <<"k">>>>) = View(Rootfs("dir"), <<<<"r">>, <<"k">>>>)
    /\ View(disk, <<<<"r">>, <<"d">>, <<"o">>>>) = View(Rootfs("dir"), <<<<"r">>, <<"d">>, <<"o">>>>)

\* C17 witness: extract_rootfs was given no destination and has made it
C17_WitnessAbsent ==
    /\ tool = "extract" /\ step = "start" /\ pc = "members"
    /\ ~lexists(pre, DEST)
    /\ EmptyRoot(disk)

\* the trees a and b hold the same objects at and below root
SameUnder(a, b, root) ==
    LET ka == {k \in DOMAIN a.tree : IsPrefix(root, k)}
        kb == {k \in DOMAIN b.tree : IsPrefix(root, k)}
    IN /\ ka = kb
       /\ \A k \in ka : View(a, k) = View(b, k)
       /\ \A k, q \in {x \in ka : a.tree[x].kind = "file"} :
             (a.tree[k].ino = a.tree[q].ino) <=> (b.tree[k].ino = b.tree[q].ino)

\* both merges have ended: the first has no layer open, the second returned
\* or raised
BothEnded == pc \in {"idle", "failed"} /\ peer.pc \in {"done", "failed"}

\* C18: two merges that run at the same time on the distinct roots DEST and
\* DEST2, their per-member steps interleaved in any order, each end with the
\* tree and the outcome they end with when run alone on the same members.
C18_ConcurrentMergesIsolated ==
    BothEnded
        => LET first == ExtractLayers(PeersDisk, layers)
               second == _extract_tar_stream(PeersDisk, DEST2, peer.members)
           IN /\ SameUnder(disk, first, DESTKEY) /\ disk.err = first.err
              /\ SameUnder(disk, second, DEST2KEY) /\ peer.err = second.err

\* the raw name without one leading "./"
StripDotSlash(name) ==
    IF StartsWith(name, <<".", "/">>) THEN SubSeq(name, 3, Len(name)) ELSE name

Normalized == step = "normalize" /\ normal.tag = "path"

\* C19: the sanitizer strips a single leading "./" and nothing else: the
\* path it returns for a relative raw name is the lexical normalization of
\* the name without that one prefix, so ".a" stays ".a" and "./.a/a" becomes
\* ".a/a".
C19_StripsSingleDotSlash ==
    (Normalized /\ ~StartsWith(raw, <<"/">>))
        => normal.path = normpath(StripDotSlash(raw))

\* C20: the sanitizer answers None, raises, or returns a path that is not
\* empty, not ".", not absolute, not ".." and does not begin with "../".
C20_ReturnedPathInsideRoot ==
    Normalized
        => /\ normal.path # <<>>
           /\ normal.path # DOT
           /\ ~StartsWith(normal.path, <<"/">>)
           /\ normal.path # DOTDOT
           /\ ~StartsWith(normal.path, <<".", ".", "/">>)

\* the last step handled a symbolic-link member that reached _extract_member
\* and whose path names an entry of the destination directly
SymlinkOver == /\ Handled /\ LastMember.kind = "sym" /\ Ordinary(LastMember)
               /\ Plainly(pre, PathOf(LastMember))

\* C21: a symbolic-link entry at p replaces whatever is at p, a regular
\* file, a directory or a symbolic link: the merge does not fail and p is a
\* symbolic link with the entry's link target.
C21_SymlinkAlwaysWins ==
    SymlinkOver
        => /\ disk.err = ""
           /\ Plainly(disk, PathOf(LastMember))
           /\ disk.tree[KeyOf(PathOf(LastMember))] = SymNode(LastMember.linkname)

\* the pending hard links, as the paths os.link is given
LinkSource(i) == pathjoin(DEST, pending_links[i][1])
LinkDest(i) == pathjoin(DEST, pending_links[i][2])

\* the hard-link pass of a layer has just run
LinksResolved == step = "links" /\ tool = "export"

\* C22: hard links always overwrite: for every pending link whose source
\* exists, whatever was at the destination is removed and the destination
\* then is another name of the source file; the pass does not fail.
C22_HardlinkAlwaysOverwrites ==
    LinksResolved
        => \A i \in 1..Len(pending_links) :
             exists(pre, LinkSource(i))
                 => /\ disk.err = ""
                    /\ Plainly(disk, LinkDest(i))
                    /\ disk.tree[KeyOf(LinkDest(i))] = disk.tree[Stat(disk, LinkSource(i)).key]
                    /\ disk.tree[KeyOf(LinkDest(i))].kind = "file"

\* the pending hard links whose source exists when the pass begins
PresentLinks == SelectSeq(pending_links, LAMBDA l : exists(pre, pathjoin(DEST, l[1])))

\* C23: a pending hard link whose source does not exist is silently dropped:
\* the pass ends as it would have without that link, so the link raises no
\* error, creates and removes nothing, and the links after it are still made
\* in order.
C23_MissingSourceDropped ==
    (LinksResolved /\ \E i \in 1..Len(pending_links) : ~exists(pre, LinkSource(i)))
        => /\ disk = ResolveLinks(pre, PresentLinks)
           /\ PresentLinks = <<>> => disk = pre
           /\ \A i \in 1..Len(pending_links) :
                 (~exists(pre, LinkSource(i)) /\ ~lexists(pre, LinkDest(i)))
                     => ~lexists(disk, LinkDest(i))

\* a link with a missing source came first and the link after it was made
C23_Witness ==
    /\ LinksResolved
    /\ Len(pending_links) = 2
    /\ ~exists(pre, LinkSource(1))
    /\ exists(pre, LinkSource(2))
    /\ disk.err = ""
    /\ ~lexists(disk, LinkDest(1))
    /\ ~lexists(pre, LinkDest(2))
    /\ disk.tree[KeyOf(LinkDest(2))] = disk.tree[KeyOf(LinkSource(2))]

\* every directory of both trees has the same mode in both
DirModesKept(a, b) ==
    \A k \in DOMAIN a.tree \cap DOMAIN b.tree :
        (a.tree[k].kind = "dir" /\ b.tree[k].kind = "dir") => a.tree[k].mode = b.tree[k].mode

\* the step taken reads an ordinary hard-link member without error
ReadsLink ==
    /\ step' = "member"
    /\ LastMember'.kind = "lnk"
    /\ Ordinary(LastMember')
    /\ disk'.err = ""

\* C24: the passes of a layer run in order.  A member is read only while no
\* pass of its layer has run, and reading a hard-link member creates nothing:
\* the link is made by the pass after the last member.  Recorded directory
\* modes are applied only by the pass that follows the hard-link pass, so no
\* member and no link changes the mode of a directory.  The next layer is
\* opened only after the mode pass of the layer before it.
C24_PassOrdering ==
    [][ /\ step' = "member" => /\ step \in {"open", "member"}
                                /\ Len(layers') = Len(layers)
                                /\ DirModesKept(disk, disk')
        /\ ReadsLink => /\ disk' = disk
                         /\ Len(pending_links') = Len(pending_links) + 1
        /\ step' = "links" => /\ step \in {"open", "member"}
                               /\ layers' = layers
                               /\ disk' = ResolveLinks(disk, pending_links)
                               /\ DirModesKept(disk, disk')
        /\ step' = "perms" => /\ step = "links"
                               /\ layers' = layers
        /\ step' = "open" => /\ step \in {"init", "perms"}
                              /\ Len(layers') = Len(layers) + 1 ]_vars

\* a layer's mode pass has changed the mode of a directory that a member of
\* that layer named and that a hard link of that layer was made beside
C24_Witness ==
    /\ LayerDone
    /\ pending_links # <<>>
    /\ Plainly(disk, LinkDest(1))
    /\ disk.tree[KeyOf(LinkDest(1))].kind = "file"
    /\ ~lexists(layer0, LinkDest(1))
    /\ ~DirModesKept(pre, disk)
    /\ Len(layers) = 2

\* the member is a hard link that is put on the pending list
Deferred(m) ==
    /\ m.kind = "lnk"
    /\ Ordinary(m)
    /\ _normalize_member_name(m.linkname).tag = "path"

\* the pending hard links that the members of one layer ask for, in order
LinksOf(members) ==
    LET ls == SelectSeq(members, Deferred)
    IN [i \in 1..Len(ls) |-> <<_normalize_member_name(ls[i].linkname).path, RelOf(ls[i]).path>>]

\* the directory modes that the members of one layer ask for, in order
PermsOf(members) ==
    LET ds == SelectSeq(members, NamesDir)
    IN [i \in 1..Len(ds) |-> <<PathOf(ds[i]), ModeBits(ds[i].mode)>>]

\* C25: the pending buffers are those of one layer: as long as the layer has
\* not failed they hold the hard links and directory modes which the members
\* read so far in the current layer ask for, and nothing of a layer before,
\* so that the passes of a layer apply that layer's directives only.
C25_BuffersPerLayer ==
    (layers # <<>> /\ pc # "failed")
        => /\ pending_links = LinksOf(Current)
           /\ dir_perms = PermsOf(Current)
           /\ step = "links" => disk = ResolveLinks(pre, LinksOf(Current))
           /\ step = "perms" => disk = FinalizePerms(pre, PermsOf(Current))

\* a hard link of the first layer was dropped for want of its source, the
\* second layer has supplied the source, and the link still does not exist
C25_Witness ==
    /\ LayerDone
    /\ Len(layers) = 2
    /\ \E i \in 1..Len(layers[1]) :
          /\ Deferred(layers[1][i])
          /\ ~exists(layer0, pathjoin(DEST, _normalize_member_name(layers[1][i].linkname).path))
          /\ exists(disk, pathjoin(DEST, _normalize_member_name(layers[1][i].linkname).path))
          /\ ~lexists(disk, PathOf(layers[1][i]))

\* the step taken reads a member that is neither a regular file, a
\* directory, a symbolic link nor a hard link
ReadsOther ==
    /\ step' = "member"
    /\ LastMember'.kind \notin {"file", "dir", "sym", "lnk"}

\* C26: a member of another kind (device node, FIFO) is silently ignored:
\* whatever its name, reading it changes neither the filesystem nor the two
\* pending buffers and raises no error; the loop goes on.
C26_OtherKindsIgnored ==
    [][ ReadsOther => /\ disk' = disk
                      /\ pending_links' = pending_links
                      /\ dir_perms' = dir_perms
                      /\ pc' = "members" ]_vars

\* a FIFO named as the whiteout marker of an existing hard link was read
C26_Witness ==
    /\ step = "member"
    /\ LastMember.kind = "fifo"
    /\ RelOf(LastMember).tag = "path"
    /\ IsMarkerRel(RelOf(LastMember).path)
    /\ lexists(disk, pathjoin(DEST, <<"n", "/", "p">>))

\* the orders a list can be put in
Orders(seq) ==
    LET n == Len(seq)
        onto == {f \in [1..n -> 1..n] : \A i, j \in 1..n : f[i] = f[j] => i = j}
    IN {[i \in 1..n |-> seq[f[i]]] : f \in onto}

\* the mode pass of a layer has just run
ModesApplied == step = "perms" /\ tool = "export"

\* no two recorded paths lead to the same directory
NoDirTwice ==
    \A i, j \in 1..Len(dir_perms) :
        (i # j /\ exists(pre, dir_perms[i][1]) /\ exists(pre, dir_perms[j][1]))
            => Stat(pre, dir_perms[i][1]).key # Stat(pre, dir_perms[j][1]).key

\* C27, as claimed: whatever list of directory modes a layer recorded,
\* applying it in any order gives the modes the pass gave.
C27_AnyOrderSameModes ==
    ModesApplied => \A q \in Orders(dir_perms) : FinalizePerms(pre, q) = disk

\* C27, amended: when no directory is recorded twice, applying the recorded
\* list in any order gives the modes the pass gave.
C27_AnyOrderDistinctDirs ==
    (ModesApplied /\ NoDirTwice)
        => \A q \in Orders(dir_perms) : FinalizePerms(pre, q) = disk

\* the pass gave a directory and the directory below it their recorded modes
C27_Witness ==
    /\ ModesApplied
    /\ NoDirTwice
    /\ Len(dir_perms) >= 2
    /\ \E i, j \in 1..Len(dir_perms) :
          /\ IsPrefix(Stat(disk, dir_perms[i][1]).key, Stat(disk, dir_perms[j][1]).key)
          /\ i # j
          /\ dir_perms[i][2] # dir_perms[j][2]
          /\ ModeOf(disk, dir_perms[i][1]) = dir_perms[i][2]
          /\ ModeOf(disk, dir_perms[j][1]) = dir_perms[j][2]
          /\ ModeOf(pre, dir_perms[i][1]) # dir_perms[i][2]
          /\ ModeOf(pre, dir_perms[j][1]) # dir_perms[j][2]

\* the object at the member's path in d is the one the member describes: a
\* regular file with its bytes and mode, a directory with its mode, a
\* symbolic link with its target, another name of its source's file
Describes(m, d) ==
    /\ Plainly(d, PathOf(m))
    /\ LET node == d.tree[KeyOf(PathOf(m))]
       IN CASE m.kind = "file" ->
                 /\ node.kind = "file"
                 /\ d.files[node.ino] = [data |-> m.data, mode |-> ModeBits(m.mode)]
            [] m.kind = "dir" -> node.kind = "dir" /\ node.mode = ModeBits(m.mode)
            [] m.kind = "sym" -> node = SymNode(m.linkname)
            [] m.kind = "lnk" ->
                 /\ Deferred(m)
                 /\ Stat(d, pathjoin(DEST, _normalize_member_name(m.linkname).path)).st = "ok"
                 /\ node = d.tree[Stat(d, pathjoin(DEST,
                                   _normalize_member_name(m.linkname).path)).key]

\* the member is a hard link whose source is not there: it is dropped
Dropped(m, d) ==
    /\ Deferred(m)
    /\ ~exists(d, pathjoin(DEST, _normalize_member_name(m.linkname).path))

\* member j of the current layer is the last ordinary member with its path,
\* and member i before it has the same path
LaterOfTwo(i, j) ==
    /\ i < j
    /\ Ordinary(Current[i])
    /\ Ordinary(Current[j])
    /\ PathOf(Current[i]) = PathOf(Current[j])
    /\ \A k \in (j + 1)..Len(Current) :
          Ordinary(Current[k]) => PathOf(Current[k]) # PathOf(Current[j])

\* C28: entries take effect in stream order: when two entries of a layer
\* name the same path, the object at the path after the layer is the one
\* the later entry describes (a hard link whose source is missing describes
\* none).
C28_LaterEntryWins ==
    LayerDone
        => \A i, j \in 1..Len(Current) :
             LaterOfTwo(i, j) => Describes(Current[j], disk) \/ Dropped(Current[j], disk)

\* the PostgreSQL include directory of the rootfs, its top-level header and
\* the server header of version e
IncludeRoot == pathjoin(DEST, PG_INCLUDE)
TopHeader == pathjoin(IncludeRoot, PG_CONFIG_H)
ServerHeader(e) == pathjoin(pathjoin(pathjoin(IncludeRoot, e), SERVER), PG_CONFIG_H)

\* the versions with a server header in d
Versions(d) ==
    IF ~isdir(d, IncludeRoot) THEN {}
    ELSE {k[Len(k)] : k \in {c \in DOMAIN d.tree :
                                /\ Len(c) = Len(KeyOf(IncludeRoot)) + 1
                                /\ IsPrefix(KeyOf(IncludeRoot), c)
                                /\ isfile(d, ServerHeader(c[Len(c)]))}}

\* e is d with the top-level header added as a copy of the server header
\* of version v, and nothing else changed
CopiedFrom(d, e, v) ==
    /\ e.err = ""
    /\ DOMAIN e.tree = DOMAIN d.tree \cup {KeyOf(TopHeader)}
    /\ \A k \in DOMAIN d.tree : e.tree[k] = d.tree[k]
    /\ \A i \in DOMAIN d.files : e.files[i] = d.files[i]
    /\ e.tree[KeyOf(TopHeader)].kind = "file"
    /\ e.tree[KeyOf(TopHeader)].ino \notin DOMAIN d.files
    /\ e.files[e.tree[KeyOf(TopHeader)].ino]
           = d.files[d.tree[Stat(d, ServerHeader(v)).key].ino]

\* what header promotion makes of d is e
Promoted(d, e) ==
    IF exists(d, TopHeader) \/ Versions(d) = {} THEN e = d
    ELSE \E v \in Versions(d) :
           /\ \A o \in Versions(d) : o = v \/ StrLess(o, v)
           /\ CopiedFrom(d, e, v)

\* C29: header promotion runs only after every package was applied
\* successfully: it follows the last pass of a package, never a failure, and
\* nothing runs after it.  A top-level pg_config.h that exists is left
\* unchanged; otherwise the server header of the version whose name sorts
\* last is copied there; without the include directory or any such header
\* nothing changes.
C29_HeaderPromotion ==
    [][ /\ step # "header"
        /\ step' = "header" => /\ step = "perms"
                                /\ pc = "idle"
                                /\ disk.err = ""
                                /\ packages # <<>>
                                /\ \A i \in 1..Len(packages) : packages[i].file
                                /\ Promoted(disk, disk') ]_vars

\* the server headers of versions 16 and 9 were there and no top-level
\* header: the one of version 9 was copied
C29_Witness ==
    /\ step = "header"
    /\ ~exists(pre, TopHeader)
    /\ Versions(pre) = {<<"1", "6">>, <<"9">>}
    /\ isfile(disk, TopHeader)
    /\ disk.files[disk.tree[KeyOf(TopHeader)].ino] = [data |-> "Q", mode |-> 384]

\* member j of the current layer is a regular file and the last ordinary
\* member of the layer with its path
LastFileEntry(j) ==
    /\ WritesFile(Current[j])
    /\ \A k \in (j + 1)..Len(Current) :
          Ordinary(Current[k]) => PathOf(Current[k]) # PathOf(Current[j])

\* C30: after a layer completes without error, every path whose last entry
\* in the layer is a regular file is a regular file, not a symbolic link and
\* not a directory, with the entry's bytes and its mode & 0o777, whatever
\* was at the path before.
C30_LastFileEntryIsFile ==
    (LayerDone /\ disk.err = "")
        => \A j \in 1..Len(Current) :
             LastFileEntry(j)
                 => /\ Plainly(disk, PathOf(Current[j]))
                    /\ disk.tree[KeyOf(PathOf(Current[j]))].kind = "file"
                    /\ disk.files[disk.tree[KeyOf(PathOf(Current[j]))].ino]
                           = [data |-> Current[j].data, mode |-> ModeBits(Current[j].mode)]

\* the last step wrote a regular-file member without error
FileWritten == Handled /\ WritesFile(LastMember) /\ disk.err = ""

\* C31: materializing a regular-file entry at p changes the content and
\* mode of p only: every other path that existed before is still there with
\* its kind, bytes, mode and link target, also a path that is a hard link of
\* p and the target of a symbolic link found at p.
C31_FileWriteTouchesOnlyP ==
    FileWritten
        => \A k \in DOMAIN pre.tree :
             k # KeyOf(PathOf(LastMember))
                 => k \in DOMAIN disk.tree /\ View(disk, k) = View(pre, k)

\* the last step handled an explicit whiteout marker
ExplicitDirective == Directive /\ basename(DirectiveRel) # OPQ

\* the directory the marker of the last step lies in
MarkerParent == KeyOf(pathjoin(DEST, dirname(DirectiveRel)))

\* the paths the last step removed
Removed == DOMAIN pre.tree \ DOMAIN disk.tree

\* C32: an explicit whiteout removes at most the sibling named by its base
\* name without the prefix: whatever the entry name, also with the base name
\* ".wh." alone, everything removed is that sibling or lies below it, and
\* the marker's parent directory and the destination root are still there.
C32_ExplicitRemovesSiblingOnly ==
    ExplicitDirective
        => /\ DESTKEY \in DOMAIN pre.tree => DESTKEY \in DOMAIN disk.tree
           /\ MarkerParent \in DOMAIN pre.tree => MarkerParent \in DOMAIN disk.tree
           /\ \A k \in Removed :
                 /\ Len(k) > Len(MarkerParent)
                 /\ IsPrefix(MarkerParent \o <<ExplicitName>>, k)

\* the layer just finished, applied once more to the tree it left
Reapplied == _extract_layer(disk, Current)

\* C33: re-applying a layer is idempotent: when a layer has been applied
\* without error, applying the same layer again at once succeeds too and
\* leaves the same tree: paths, kinds, bytes, link targets, groups of hard
\* links and modes.
C33_ReapplyIdempotent ==
    LayerDone => Reapplied.err = "" /\ SameTree(Reapplied, disk)

====
